---- MODULE Spec2Model ----
(***************************************************************************)
(* The dispatch core of gerrit-tools' serve mode: the in-memory task queue *)
(* (internal/queue/queue.go), driven by the serve loop's pushes            *)
(* (internal/cli/change.go) and by the worker pool (worker package), each  *)
(* worker looping Pop, ReviewChange, MarkDone.                             *)
(*                                                                         *)
(* Queue.Push holds q.mu from entry to return.  Queue.Pop receives from    *)
(* the channel without q.mu and, in lazy mode, takes q.mu afterwards to    *)
(* consult latestByChange.  A step of the model is therefore one access to *)
(* the channel or one critical section that touches no channel.            *)
(*                                                                         *)
(* Around that core: runServe's select and its shutdown through Pool.Stop  *)
(* (SpecServe), the worker's loop body with the outcome of ReviewChange    *)
(* (SpecPool), and the reconnect loop of Listener.StreamEvents             *)
(* (SpecListener).  ReviewChange itself, from the clone to the deferred    *)
(* cleanup, is taken step by step for one worker in SpecReview, and the    *)
(* lines read by streamOnce, the events on eventCh and runServe's pushes   *)
(* of them in SpecStream; there the pool is left out and the queue keeps   *)
(* what is pushed.                                                         *)
(*                                                                         *)
(* The helpers without state, the event filter's ShouldProcess,            *)
(* git.GetPatchsetRef and Config.GetRepoPath, are called with any argument *)
(* in SpecCalls; SpecTwin gives two lazy-mode queues the same calls of one *)
(* goroutine, but for one Push that failed on a full channel; SpecPoolFair *)
(* is the pool with its goroutines scheduled.                              *)
(***************************************************************************)
EXTENDS Integers, Sequences, FiniteSets, TLC

\* ---- bounds of the model ------------------------------------------------
QueueSize == 2        \* serve.queue-size, the capacity given to NewQueue
MaxWorkers == 2       \* largest serve.workers considered
MaxPush == 3          \* Push calls made in one behaviour

\* the events' projects, change numbers and patchset numbers
Projects == {"p"}
ChangeNumbers == {1, 2}
PatchsetNumbers == {1, 2}
WorkerIds == 1..MaxWorkers

VARIABLES
    tasks,            \* Queue.tasks: the buffered channel, oldest first
    inflight,         \* Queue.inflight: the set of ids mapped to true
    latestByChange,   \* Queue.latestByChange: change key -> patchset number
    lazyMode,         \* Queue.lazyMode
    mu,               \* Queue.mu: "free", or "push" while Push is past its send
    pushing,          \* the task of the Push that holds q.mu
    workers,          \* Pool.workers
    started,          \* number of worker goroutines Pool.Start has launched
    pc,               \* position of each worker goroutine
    held,             \* each worker's local variable task
    latestPatchset,   \* each worker's local latestPatchset read in Pop
    cancelled,        \* ctx.Done() of the root context is closed
    pushCount,        \* history: number of Push calls so far
    lastOp,           \* history: the latest call of the serve loop or an outside caller
    admitted,         \* history: the tasks Push has enqueued (CreatedAt dropped)
    lastRecvAt,       \* history: CreatedAt of the task Pop received last
    lastRetAt,        \* history: CreatedAt of the task Pop returned last
    staleAtRecv,      \* history: the task a worker holds was behind latest when received
    spc,              \* position of runServe: "loop", "push" (an event received, q.Push
                      \* not called yet), "stopping" (in pool.Stop), "done" (in
                      \* pool.Stop with done closed), "returned"
    stopRes,          \* what pool.Stop returned: "none" while it was not called
    lpc,              \* position of the listener's goroutine; "closed": eventCh is closed
    retries,          \* StreamEvents' local retries
    waitTime,         \* StreamEvents' local waitTime, in seconds
    failStreak,       \* history: connection attempts that have failed in a row, i.e.
                      \* streamOnce calls that returned an error with no stream
                      \* brought up, since the last stream that was brought up
    rv,               \* the ReviewChange calls under way, by worker: position, locals
    head,             \* the branch the project's workspace is on
    branches,         \* the review branches that exist in the workspace
    frames,           \* the lines scanner.Scan() has delivered, over all connections
    hand,             \* streamOnce's local event while it is being sent, or NoEvent
    eventCh,          \* the buffered channel of events, oldest first
    emitted,          \* the events sent on eventCh, in the order of the sends
    pushed,           \* the events runServe has called q.Push for, in that order
    inServe,          \* runServe's local event between its receive and its q.Push
    filter,           \* the FilterConfig given to events.NewFilter
    call,             \* the last call of a helper function: name, arguments, result
    twin              \* two queues given the same calls, but for one failed Push

vars == <<tasks, inflight, latestByChange, lazyMode, mu, pushing, workers, started,
          pc, held, latestPatchset, cancelled, pushCount, lastOp, admitted,
          lastRecvAt, lastRetAt, staleAtRecv, spc, stopRes, lpc, retries, waitTime,
          failStreak, rv, head, branches, frames, hand, eventCh, emitted, pushed,
          inServe, filter, call, twin>>

queueVars == <<tasks, inflight, latestByChange>>
poolVars == <<workers, started, pc, held, latestPatchset, staleAtRecv>>
logVars == <<admitted, lastRecvAt, lastRetAt>>
serveVars == <<spc, stopRes>>
listenerVars == <<lpc, retries, waitTime, failStreak>>
reviewVars == <<rv, head, branches>>
streamVars == <<frames, hand, eventCh, emitted, pushed, inServe>>
configVars == <<filter, call, twin>>

\* the value of a record variable nothing was written to yet
Nothing == [x \in {} |-> 0]

\* ---- tasks ----------------------------------------------------------------
\* fmt.Sprintf("%s-%d", project, changeNumber)
changeKey(project, changeNumber) == project \o "-" \o ToString(changeNumber)

\* fmt.Sprintf("%s-%d-%d", project, change, patchset): the id the serve loop gives a task
TaskID(project, changeNumber, patchsetNumber) ==
    project \o "-" \o ToString(changeNumber) \o "-" \o ToString(patchsetNumber)

\* Task{...}; Subject plays no part in the queue; CreatedAt is time.Now() at the
\* caller, a clock that advances with every task built
Task(id, project, changeNumber, patchsetNumber, createdAt) ==
    [ID |-> id, Project |-> project, ChangeNumber |-> changeNumber,
     PatchsetNumber |-> patchsetNumber, CreatedAt |-> createdAt]

\* Task{}: the zero value
NoTask == Task("", "", 0, 0, 0)

\* a task as the history variables record it
Unstamped(task) == [task EXCEPT !.CreatedAt = 0]

KeyOf(task) == changeKey(task.Project, task.ChangeNumber)

\* the tasks the serve loop builds from events, at time now
EventTasks(now) ==
    {Task(TaskID(p, c, n), p, c, n, now) :
        p \in Projects, c \in ChangeNumbers, n \in PatchsetNumbers}

\* tasks whose id is not derived from the revision, as in the queue's tests ("proj-100-2b")
OtherTasks(now) == {Task("p-1-2b", "p", 1, 2, now)}

AllTasks == EventTasks(0) \cup OtherTasks(0)
AllIds == {t.ID : t \in AllTasks} \cup {"never-pushed"}

\* the ids outside callers pass to MarkDone: a daemon task's, another task's, no task's
CallIds == {TaskID("p", 1, 1), "p-1-2b", "never-pushed"}

\* ---- the queue's maps and channel ------------------------------------------
\* q.latestByChange[key], the zero value when the key is absent
LatestOf(latest, key) == IF key \in DOMAIN latest THEN latest[key] ELSE 0

\* q.latestByChange[key] = n
SetLatest(latest, key, n) ==
    [k \in (DOMAIN latest) \cup {key} |-> IF k = key THEN n ELSE latest[k]]

\* ChanSend that puts the task at the front
ChanSendFront(q, task) == <<task>> \o q

\* q.tasks <- task
ChanSend(q, task) == Append(q, task)

\* <-q.tasks: the task received and the channel left behind
ChanRecvTask(q) == Head(q)
ChanRecvRest(q) == Tail(q)

\* ---- Queue.Push -------------------------------------------------------------
\* IsObsolete with `<` for `<=`: an equal patchset is let through
IsObsoleteStrict(task) ==
    /\ KeyOf(task) \in DOMAIN latestByChange
    /\ task.PatchsetNumber < latestByChange[KeyOf(task)]

\* the lazy-mode test `ok && task.PatchsetNumber <= latestPatchset`
IsObsolete(task) ==
    /\ KeyOf(task) \in DOMAIN latestByChange
    /\ task.PatchsetNumber <= latestByChange[KeyOf(task)]

\* PushResult without the duplicate test
PushResultNoDup(task) ==
    IF lazyMode /\ IsObsolete(task) THEN "ErrObsoleteTask"
    ELSE IF Len(tasks) < QueueSize THEN "ok"
    ELSE "ErrQueueFull"

\* PushResult with a send that never finds the channel full
PushResultNoFull(task) ==
    IF task.ID \in inflight THEN "ErrDuplicateTask"
    ELSE IF lazyMode /\ IsObsolete(task) THEN "ErrObsoleteTask"
    ELSE "ok"

\* PushResult with the send tried before the obsolete test
PushResultFullFirst(task) ==
    IF task.ID \in inflight THEN "ErrDuplicateTask"
    ELSE IF Len(tasks) >= QueueSize THEN "ErrQueueFull"
    ELSE IF lazyMode /\ IsObsolete(task) THEN "ErrObsoleteTask"
    ELSE "ok"

\* the value Push returns: nil ("ok") or one of the three typed errors
PushResult(task) ==
    IF task.ID \in inflight THEN "ErrDuplicateTask"
    ELSE IF lazyMode /\ IsObsolete(task) THEN "ErrObsoleteTask"
    ELSE IF Len(tasks) < QueueSize THEN "ok"
    ELSE "ErrQueueFull"

\* PushLatest with the assignment moved above the obsolete test
PushLatestAlways(task) ==
    IF task.ID \notin inflight /\ lazyMode
    THEN SetLatest(latestByChange, KeyOf(task), task.PatchsetNumber)
    ELSE latestByChange

\* latestByChange when Push reaches its select (or returns before it)
PushLatest(task) ==
    IF task.ID \notin inflight /\ lazyMode /\ ~IsObsolete(task)
    THEN SetLatest(latestByChange, KeyOf(task), task.PatchsetNumber)
    ELSE latestByChange

\* Push from q.mu.Lock() through the select: on an error it returns here (and
\* unlocks); on a successful send it still holds q.mu.
QueuePush(task) ==
    /\ mu = "free"
    /\ pushCount < MaxPush
    /\ pushCount' = pushCount + 1
    /\ lastOp' = [op |-> "Push", task |-> Unstamped(task), res |-> PushResult(task)]
    /\ latestByChange' = PushLatest(task)
    /\ IF PushResult(task) = "ok"
       THEN /\ tasks' = ChanSend(tasks, task)
            /\ mu' = "push"
            /\ pushing' = task
            /\ admitted' = admitted \cup {Unstamped(task)}
       ELSE UNCHANGED <<tasks, mu, pushing, admitted>>
    /\ UNCHANGED <<inflight, lazyMode, cancelled, lastRecvAt, lastRetAt>>
    /\ UNCHANGED poolVars
    /\ UNCHANGED <<stopRes>>
    /\ UNCHANGED listenerVars
    /\ UNCHANGED reviewVars

\* Queue.Push, called while the listener's goroutine stands still
Push(task) ==
    /\ QueuePush(task)
    /\ UNCHANGED streamVars
    /\ UNCHANGED configVars

\* q.inflight[task.ID] = true; return nil (and the deferred q.mu.Unlock())
PushInflight ==
    /\ mu = "push"
    /\ inflight' = inflight \cup {pushing.ID}
    /\ mu' = "free"
    /\ pushing' = NoTask
    /\ UNCHANGED <<tasks, latestByChange, lazyMode, cancelled, pushCount, lastOp>>
    /\ UNCHANGED poolVars
    /\ UNCHANGED logVars
    /\ UNCHANGED serveVars
    /\ UNCHANGED listenerVars
    /\ UNCHANGED reviewVars
    /\ UNCHANGED streamVars
    /\ UNCHANGED configVars

\* ---- Queue.Pop --------------------------------------------------------------
\* case task := <-q.tasks
PopRecv(w) ==
    /\ pc[w] = "pop"
    /\ Len(tasks) > 0
    /\ held' = [held EXCEPT ![w] = ChanRecvTask(tasks)]
    /\ tasks' = ChanRecvRest(tasks)
    /\ pc' = [pc EXCEPT ![w] = IF lazyMode THEN "check" ELSE "ret"]
    /\ lastRecvAt' = ChanRecvTask(tasks).CreatedAt
    /\ staleAtRecv' = [staleAtRecv EXCEPT ![w] =
            lazyMode /\ ChanRecvTask(tasks).PatchsetNumber
                            < LatestOf(latestByChange, KeyOf(ChanRecvTask(tasks)))]
    /\ UNCHANGED <<inflight, latestByChange, lazyMode, mu, pushing, workers, started,
                   latestPatchset, cancelled, pushCount, lastOp, admitted, lastRetAt>>
    /\ UNCHANGED serveVars
    /\ UNCHANGED listenerVars
    /\ UNCHANGED reviewVars
    /\ UNCHANGED streamVars
    /\ UNCHANGED configVars

\* Superseded that never finds a task superseded
SupersededNever(task, latest) == FALSE

\* Superseded with the comparison turned round
SupersededReversed(task, latest) == task.PatchsetNumber > latest

\* Superseded with `<=` for `<`: a task equal to the latest is dropped too
SupersededOrEqual(task, latest) == task.PatchsetNumber <= latest

\* task.PatchsetNumber < latestPatchset
Superseded(task, latest) == task.PatchsetNumber < latest

\* the lazy-mode critical section of Pop: read latestByChange, then either
\* delete the id and continue the loop, or fall through to the return
PopCheck(w) ==
    /\ pc[w] = "check"
    /\ mu = "free"
    /\ latestPatchset' = [latestPatchset EXCEPT ![w] = LatestOf(latestByChange, KeyOf(held[w]))]
    /\ IF Superseded(held[w], LatestOf(latestByChange, KeyOf(held[w])))
       THEN /\ inflight' = inflight \ {held[w].ID}
            /\ held' = [held EXCEPT ![w] = NoTask]
            /\ pc' = [pc EXCEPT ![w] = "pop"]
       ELSE /\ pc' = [pc EXCEPT ![w] = "ret"]
            /\ UNCHANGED <<inflight, held>>
    /\ UNCHANGED <<tasks, latestByChange, lazyMode, mu, pushing, workers, started,
                   cancelled, pushCount, lastOp, staleAtRecv>>
    /\ UNCHANGED logVars
    /\ UNCHANGED serveVars
    /\ UNCHANGED listenerVars
    /\ UNCHANGED reviewVars
    /\ UNCHANGED streamVars
    /\ UNCHANGED configVars

\* return task, nil: the worker has the task
PopReturn(w) ==
    /\ pc[w] = "ret"
    /\ pc' = [pc EXCEPT ![w] = "run"]
    /\ lastRetAt' = held[w].CreatedAt
    /\ UNCHANGED <<tasks, inflight, latestByChange, lazyMode, mu, pushing, workers,
                   started, held, latestPatchset, cancelled, pushCount, lastOp,
                   admitted, lastRecvAt, staleAtRecv>>
    /\ UNCHANGED serveVars
    /\ UNCHANGED listenerVars
    /\ UNCHANGED reviewVars
    /\ UNCHANGED streamVars
    /\ UNCHANGED configVars

\* case <-ctx.Done(): Pop returns ctx.Err() and the worker returns
PopCancelled(w) ==
    /\ pc[w] = "pop"
    /\ cancelled
    /\ pc' = [pc EXCEPT ![w] = "stopped"]
    /\ UNCHANGED <<tasks, inflight, latestByChange, lazyMode, mu, pushing, workers,
                   started, held, latestPatchset, cancelled, pushCount, lastOp,
                   staleAtRecv>>
    /\ UNCHANGED logVars
    /\ UNCHANGED serveVars
    /\ UNCHANGED listenerVars
    /\ UNCHANGED reviewVars
    /\ UNCHANGED streamVars
    /\ UNCHANGED configVars

\* ---- Queue.MarkDone ---------------------------------------------------------
\* MarkDoneSet that flips the entry instead of deleting it
MarkDoneSetToggle(ids, taskID) ==
    IF taskID \in ids THEN ids \ {taskID} ELSE ids \cup {taskID}

\* MarkDoneSet that leaves the entry in the map
MarkDoneSetKeep(ids, taskID) == ids

\* MarkDoneSet that empties the map
MarkDoneSetAll(ids, taskID) == {}

\* delete(q.inflight, taskID)
MarkDoneSet(ids, taskID) == ids \ {taskID}

\* ---- Pool ---------------------------------------------------------------------
\* MoreWorkers for a loop that runs once more
MoreWorkersInclusive(i, n) == i <= n

\* the condition of Start's loop: i < p.workers
MoreWorkers(i, n) == i < n

\* one iteration of Start's loop: p.wg.Add(1); go p.worker(ctx, i+1)
Start ==
    /\ MoreWorkers(started, workers)
    /\ started' = started + 1
    /\ pc' = [pc EXCEPT ![started + 1] = "pop"]
    /\ UNCHANGED <<tasks, inflight, latestByChange, lazyMode, mu, pushing, workers,
                   held, latestPatchset, cancelled, pushCount, lastOp, staleAtRecv>>
    /\ UNCHANGED logVars
    /\ UNCHANGED serveVars
    /\ UNCHANGED listenerVars
    /\ UNCHANGED reviewVars
    /\ UNCHANGED streamVars
    /\ UNCHANGED configVars

\* the rest of the worker's loop body: p.reviewer.ReviewChange(ctx, req) returns,
\* with an error or without, and p.queue.MarkDone(task.ID) gets q.mu; then the
\* next iteration
MarkDone(w) ==
    /\ pc[w] = "run"
    /\ mu = "free"
    /\ inflight' = MarkDoneSet(inflight, held[w].ID)
    /\ held' = [held EXCEPT ![w] = NoTask]
    /\ pc' = [pc EXCEPT ![w] = "pop"]
    /\ UNCHANGED <<tasks, latestByChange, lazyMode, mu, pushing, workers, started,
                   latestPatchset, cancelled, pushCount, lastOp, staleAtRecv>>
    /\ UNCHANGED logVars
    /\ UNCHANGED serveVars
    /\ UNCHANGED listenerVars
    /\ UNCHANGED reviewVars
    /\ UNCHANGED streamVars
    /\ UNCHANGED configVars

\* ---- the worker's loop body, the pipeline apart from MarkDone -----------------
\* MarkDoneAfter for a worker that skips MarkDone when the review failed
MarkDoneAfterSuccess == {"completed"}

\* the outcomes of ReviewChange after which the worker calls p.queue.MarkDone: the
\* call follows the if/else on err, so both
MarkDoneAfter == {"completed", "failed"}

\* p.reviewer.ReviewChange(ctx, req) returns: nil ("completed") or an error
\* ("failed": the review failed, timed out or was cancelled); the worker logs it
ReviewChange(w) ==
    /\ pc[w] = "run"
    /\ \E outcome \in {"completed", "failed"} : pc' = [pc EXCEPT ![w] = outcome]
    /\ UNCHANGED <<tasks, inflight, latestByChange, lazyMode, mu, pushing, workers, started,
                   held, latestPatchset, cancelled, pushCount, lastOp, staleAtRecv>>
    /\ UNCHANGED logVars
    /\ UNCHANGED serveVars
    /\ UNCHANGED listenerVars
    /\ UNCHANGED reviewVars
    /\ UNCHANGED streamVars
    /\ UNCHANGED configVars

\* p.queue.MarkDone(task.ID) of the worker gets q.mu; then the next iteration
WorkerMarkDone(w) ==
    /\ pc[w] \in MarkDoneAfter
    /\ mu = "free"
    /\ inflight' = MarkDoneSet(inflight, held[w].ID)
    /\ lastOp' = [op |-> "worker.MarkDone", task |-> Unstamped(held[w]), res |-> pc[w]]
    /\ held' = [held EXCEPT ![w] = NoTask]
    /\ pc' = [pc EXCEPT ![w] = "pop"]
    /\ UNCHANGED <<tasks, latestByChange, lazyMode, mu, pushing, workers, started,
                   latestPatchset, cancelled, pushCount, staleAtRecv>>
    /\ UNCHANGED logVars
    /\ UNCHANGED serveVars
    /\ UNCHANGED listenerVars
    /\ UNCHANGED reviewVars
    /\ UNCHANGED streamVars
    /\ UNCHANGED configVars

\* ---- Reviewer.ReviewChange, step by step ---------------------------------------
\* review.claude_timeout values of the configuration, in seconds
ClaudeTimeouts == {0, 30}

\* numbers of changed files `git diff --name-only HEAD^` can list
ChangedFileCounts == {0, 2}

\* review.cli after configuredReviewCLI
ReviewCLIs == {"claude", "codex"}

\* fmt.Sprintf("review-%d-%d", changeNum, patchsetNum)
BranchName(changeNum, patchsetNum) ==
    "review-" \o ToString(changeNum) \o "-" \o ToString(patchsetNum)

\* TimeoutOf without the fallback
TimeoutOfConfig(claudeTimeout) == claudeTimeout

\* ExecuteReview's deadline in seconds: the configured value, 10 minutes when that
\* is not positive
TimeoutOf(claudeTimeout) == IF claudeTimeout <= 0 THEN 10 * 60 ELSE claudeTimeout

\* ShortCircuit that never finds the change empty
ShortCircuitNever(changedFiles) == changedFiles < 0

\* changedFiles == 0: "No changes found, skipping review"
ShortCircuit(changedFiles) == changedFiles = 0

\* AfterCheckout for a cleanup that runs on success only
AfterCheckoutOnSuccess(err) == IF err = "nil" THEN "cleanup" ELSE "return"

\* where ReviewChange goes when it returns err after CheckoutPatchset succeeded: the
\* deferred Cleanup runs on every return
AfterCheckout(err) == "cleanup"

\* AfterBackendError that calls ExecuteReview again
AfterBackendErrorRetry(kind) == "execute"

\* where ReviewChange goes when ExecuteReview returned an error: the error is
\* returned, ExecuteReview is not called again
AfterBackendError(kind) == AfterCheckout(kind)

\* truncateForReviewMessage(s, maxLen)
truncateForReviewMessage(s, maxLen) ==
    IF Len(s) <= maxLen THEN s ELSE SubSeq(s, 1, maxLen) \o "...(truncated)"

\* buildRateLimitFailureSummary(backend, err)
buildRateLimitFailureSummary(backend, cause) ==
    "Backend: " \o backend \o ". Cause: " \o truncateForReviewMessage(cause, 220)
        \o ". Please retry this patchset later."

\* PostsOnError for a pipeline that reports every failure of the backend to the
\* review server
PostsOnErrorEvery(posts, task, kind) ==
    Append(posts, [change |-> task.ChangeNumber, revision |-> task.PatchsetNumber,
                   vote |-> 0, summary |-> buildRateLimitFailureSummary("claude", kind),
                   backend |-> "claude", cause |-> kind])

\* the reviews ReviewChange has posted when it returns the error of ExecuteReview:
\* `if err != nil { return fmt.Errorf(...) }` is the one branch for every error, a
\* rate-limit failure included, and it posts nothing
PostsOnError(posts, task, kind) == posts

\* a ReviewChange call that has not started.  ppc is the position of the call: "idle",
\* "fetch", "checkout" (before `git branch -D`), "create" (before `git checkout -b`),
\* "diff", "prompt", "execute", "backend" (the backend process runs), "cleanup" (before
\* Cleanup's `git checkout`), "delete" (before Cleanup's `git branch -D`), "return".
\* ctxErr is what the test `ctx.Err() == context.DeadlineExceeded` saw after a failed
\* cmd.Wait(): "nil" while the test was not made.
NoReview ==
    [ppc |-> "idle", done |-> <<>>, branchName |-> "", changedFiles |-> 0, calls |-> 0,
     claudeTimeout |-> 0, timeout |-> 0, backend |-> "none", ctxErr |-> "nil",
     err |-> "none", cleanup |-> "none", posts |-> <<>>]

\* the ReviewChange call of worker w: rv holds the calls that are under way
Rv(w) == IF w \in DOMAIN rv THEN rv[w] ELSE NoReview

\* rv with the call of worker w at r; a call that has returned is dropped
SetRv(w, r) ==
    [v \in (IF r = NoReview THEN DOMAIN rv \ {w} ELSE DOMAIN rv \cup {w}) |->
        IF v = w THEN r ELSE rv[v]]

\* what a step of ReviewChange leaves alone, the workspace apart
ReviewFrame ==
    /\ UNCHANGED <<tasks, inflight, latestByChange, lazyMode, mu, pushing, cancelled,
                   pushCount, lastOp>>
    /\ UNCHANGED <<workers, started, held, latestPatchset, staleAtRecv>>
    /\ UNCHANGED logVars
    /\ UNCHANGED serveVars
    /\ UNCHANGED listenerVars
    /\ UNCHANGED streamVars
    /\ UNCHANGED configVars

\* a git command run with exec.CommandContext(ctx, ...) can succeed only when ctx is
\* not done when it starts
CanSucceed(ok) == ok => ~cancelled

\* repoMgr.CloneOrUpdate(ctx)
CloneOrUpdate(w) ==
    /\ pc[w] = "run"
    /\ Rv(w).ppc = "idle"
    /\ \E ok \in BOOLEAN :
          /\ CanSucceed(ok)
          /\ rv' = SetRv(w,
                 IF ok THEN [NoReview EXCEPT !.ppc = "fetch", !.done = <<"clone">>]
                       ELSE [NoReview EXCEPT !.ppc = "return", !.err = "clone"])
    /\ UNCHANGED <<pc, head, branches>>
    /\ ReviewFrame

\* repoMgr.FetchPatchset(ctx, ref)
FetchPatchset(w) ==
    /\ pc[w] = "run"
    /\ Rv(w).ppc = "fetch"
    /\ \E ok \in BOOLEAN :
          /\ CanSucceed(ok)
          /\ rv' = SetRv(w,
                 IF ok THEN [Rv(w) EXCEPT !.ppc = "checkout", !.done = Append(@, "fetch")]
                       ELSE [Rv(w) EXCEPT !.ppc = "return", !.err = "fetch"])
    /\ UNCHANGED <<pc, head, branches>>
    /\ ReviewFrame

\* repoMgr.CheckoutPatchset, its first command: `git branch -D name`, whose error is
\* ignored; git deletes no branch that is checked out
CheckoutPatchsetDelete(w) ==
    /\ pc[w] = "run"
    /\ Rv(w).ppc = "checkout"
    /\ LET name == BranchName(held[w].ChangeNumber, held[w].PatchsetNumber) IN
       \E deleted \in BOOLEAN :
          /\ CanSucceed(deleted)
          /\ deleted => (name \in branches /\ head # name)
          /\ branches' = IF deleted THEN branches \ {name} ELSE branches
    /\ rv' = SetRv(w, [Rv(w) EXCEPT !.ppc = "create"])
    /\ UNCHANGED <<pc, head>>
    /\ ReviewFrame

\* repoMgr.CheckoutPatchset, its second command: `git checkout -b name FETCH_HEAD`;
\* git creates no branch that exists.  On success ReviewChange registers the deferred
\* Cleanup.
CheckoutPatchset(w) ==
    /\ pc[w] = "run"
    /\ Rv(w).ppc = "create"
    /\ LET name == BranchName(held[w].ChangeNumber, held[w].PatchsetNumber) IN
       \E ok \in BOOLEAN :
          /\ CanSucceed(ok)
          /\ ok => name \notin branches
          /\ IF ok
             THEN /\ branches' = branches \cup {name}
                  /\ head' = name
                  /\ rv' = SetRv(w, [Rv(w) EXCEPT !.ppc = "diff", !.branchName = name,
                                                        !.done = Append(@, "checkout")])
             ELSE /\ UNCHANGED <<branches, head>>
                  /\ rv' = SetRv(w, [Rv(w) EXCEPT !.ppc = "return", !.err = "checkout"])
    /\ UNCHANGED pc
    /\ ReviewFrame

\* repoMgr.GetDiffStats(ctx) and the test of changedFiles
GetDiffStats(w) ==
    /\ pc[w] = "run"
    /\ Rv(w).ppc = "diff"
    /\ \E ok \in BOOLEAN, n \in ChangedFileCounts :
          /\ CanSucceed(ok)
          /\ rv' = SetRv(w,
                 IF ~ok THEN [Rv(w) EXCEPT !.ppc = AfterCheckout("diff"), !.err = "diff"]
                 ELSE IF ShortCircuit(n)
                      THEN [Rv(w) EXCEPT !.ppc = AfterCheckout("nil"), !.err = "nil",
                                     !.changedFiles = n, !.done = Append(@, "diff")]
                      ELSE [Rv(w) EXCEPT !.ppc = "prompt", !.changedFiles = n,
                                     !.done = Append(@, "diff")])
    /\ UNCHANGED <<pc, head, branches>>
    /\ ReviewFrame

\* executor.BuildPrompt(changeInfo): fails when the skill text cannot be loaded
BuildPrompt(w) ==
    /\ pc[w] = "run"
    /\ Rv(w).ppc = "prompt"
    /\ \E ok \in BOOLEAN :
          rv' = SetRv(w,
                 IF ok THEN [Rv(w) EXCEPT !.ppc = "execute", !.done = Append(@, "prompt")]
                       ELSE [Rv(w) EXCEPT !.ppc = AfterCheckout("prompt"), !.err = "prompt"])
    /\ UNCHANGED <<pc, head, branches>>
    /\ ReviewFrame

\* executor.ExecuteReview(ctx, prompt) up to cmd.Start(): the deadline is set, the
\* backend process is started or fails to start
ExecuteReview(w) ==
    /\ pc[w] = "run"
    /\ Rv(w).ppc = "execute"
    /\ \E claudeTimeout \in ClaudeTimeouts, ok \in BOOLEAN :
          /\ CanSucceed(ok)
          /\ rv' = SetRv(w,
                 IF ok THEN [Rv(w) EXCEPT !.ppc = "backend", !.calls = @ + 1,
                                      !.claudeTimeout = claudeTimeout,
                                      !.timeout = TimeoutOf(claudeTimeout),
                                      !.backend = "running"]
                       ELSE [Rv(w) EXCEPT !.ppc = AfterBackendError("backend"), !.calls = @ + 1,
                                      !.posts = PostsOnError(@, held[w], "backend"),
                                      !.claudeTimeout = claudeTimeout,
                                      !.timeout = TimeoutOf(claudeTimeout),
                                      !.err = "backend"])
    /\ UNCHANGED <<pc, head, branches>>
    /\ ReviewFrame

\* what the test `ctx.Err() == context.DeadlineExceeded` can see after cmd.Wait()
\* failed for a process that exited by itself: nil, DeadlineExceeded when the deadline
\* has passed since the exit, Canceled when the worker's ctx is cancelled
CtxErrs == {"nil", "deadline"} \cup (IF cancelled THEN {"canceled"} ELSE {})

\* the error ExecuteReview returns when cmd.Wait() failed with the error kind:
\* "timed out after" when ctx.Err() is DeadlineExceeded, "execution failed" otherwise
WaitError(kind, ctxErr) == IF ctxErr = "deadline" THEN "timeout" ELSE kind

\* the backend process exits by itself, the scanner reaches the end of its output and
\* cmd.Wait() returns: nil and ExecuteReview returns the output; or an error, an error
\* whose cause is a rate limit of the backend included, and ExecuteReview returns
\* "timed out after" or "execution failed" by what ctx.Err() is at that moment
BackendExits(w) ==
    /\ pc[w] = "run"
    /\ Rv(w).ppc = "backend"
    /\ \/ rv' = SetRv(w, [Rv(w) EXCEPT !.ppc = AfterCheckout("nil"), !.err = "nil",
                                         !.backend = "exited",
                                         !.done = Append(@, "execute")])
       \/ \E kind \in {"backend", "ratelimit"}, ctxErr \in CtxErrs :
             rv' = SetRv(w, [Rv(w) EXCEPT
                                !.ppc = AfterBackendError(WaitError(kind, ctxErr)),
                                !.err = WaitError(kind, ctxErr),
                                !.posts = PostsOnError(@, held[w], WaitError(kind, ctxErr)),
                                !.ctxErr = ctxErr,
                                !.backend = "exited"])
    /\ UNCHANGED <<pc, head, branches>>
    /\ ReviewFrame

\* scanner.Err() is not nil (a line above the 1 MB buffer, a failed read):
\* executeClaudeReview returns "error reading claude output" without cmd.Wait(), and
\* ExecuteReview's deferred cancel() makes exec.CommandContext kill the process, the
\* worker's ctx being live or not; a process that has exited by then is not killed
ScannerError(w) ==
    /\ pc[w] = "run"
    /\ Rv(w).ppc = "backend"
    /\ \E end \in {"killed", "exited"} :
          rv' = SetRv(w, [Rv(w) EXCEPT !.ppc = AfterBackendError("backend"),
                                         !.err = "backend",
                                         !.posts = PostsOnError(@, held[w], "backend"),
                                         !.backend = end])
    /\ UNCHANGED <<pc, head, branches>>
    /\ ReviewFrame

\* the error ExecuteReview returns when cmd.Wait() failed for a killed process
KillError(cause) == WaitError("backend", cause)

\* the deadline of ExecuteReview's context passes while the process runs:
\* exec.CommandContext kills the process, cmd.Wait() fails and ctx.Err() is
\* DeadlineExceeded
BackendDeadline(w) ==
    /\ pc[w] = "run"
    /\ Rv(w).ppc = "backend"
    /\ rv' = SetRv(w, [Rv(w) EXCEPT !.ppc = AfterBackendError(KillError("deadline")),
                                         !.posts = PostsOnError(@, held[w],
                                                                KillError("deadline")),
                                         !.err = KillError("deadline"),
                                         !.ctxErr = "deadline",
                                         !.backend = "killed"])
    /\ UNCHANGED <<pc, head, branches>>
    /\ ReviewFrame

\* the worker's ctx is cancelled while the process runs: exec.CommandContext kills
\* the process, cmd.Wait() fails and ctx.Err() is Canceled
BackendCancelled(w) ==
    /\ pc[w] = "run"
    /\ Rv(w).ppc = "backend"
    /\ cancelled
    /\ rv' = SetRv(w, [Rv(w) EXCEPT !.ppc = AfterBackendError(KillError("canceled")),
                                         !.posts = PostsOnError(@, held[w],
                                                                KillError("canceled")),
                                         !.err = KillError("canceled"),
                                         !.ctxErr = "canceled",
                                         !.backend = "killed"])
    /\ UNCHANGED <<pc, head, branches>>
    /\ ReviewFrame

\* the deferred repoMgr.Cleanup(ctx, branchName), its loop over "main" and "master":
\* `git checkout main`, and `git checkout master` when that failed; the first that
\* succeeds puts the workspace on the default branch, and the loop's errors are
\* dropped
CleanupCheckout(w) ==
    /\ pc[w] = "run"
    /\ Rv(w).ppc = "cleanup"
    /\ \E switched \in BOOLEAN :
          /\ CanSucceed(switched)
          /\ head' = IF switched THEN "main" ELSE head
    /\ rv' = SetRv(w, [Rv(w) EXCEPT !.ppc = "delete"])
    /\ UNCHANGED <<pc, branches>>
    /\ ReviewFrame

\* Cleanup's last command, `git branch -D branchName`: git deletes no branch that is
\* checked out; its error is Cleanup's error, which ReviewChange logs
Cleanup(w) ==
    /\ pc[w] = "run"
    /\ Rv(w).ppc = "delete"
    /\ \E deleted \in BOOLEAN :
          /\ CanSucceed(deleted)
          /\ deleted => (Rv(w).branchName \in branches /\ head # Rv(w).branchName)
          /\ branches' = IF deleted THEN branches \ {Rv(w).branchName} ELSE branches
          /\ rv' = SetRv(w, [Rv(w) EXCEPT !.ppc = "return",
                                          !.cleanup = IF deleted THEN "ok" ELSE "failed"])
    /\ UNCHANGED <<pc, head>>
    /\ ReviewFrame

\* ReviewChange returns to the worker, which logs "failed" or "completed"
ReviewReturns(w) ==
    /\ pc[w] = "run"
    /\ Rv(w).ppc = "return"
    /\ pc' = [pc EXCEPT ![w] = IF Rv(w).err = "nil" THEN "completed" ELSE "failed"]
    /\ rv' = SetRv(w, NoReview)
    /\ UNCHANGED <<head, branches>>
    /\ ReviewFrame

\* the steps of one ReviewChange call
Review(w) ==
    \/ CloneOrUpdate(w)
    \/ FetchPatchset(w)
    \/ CheckoutPatchsetDelete(w)
    \/ CheckoutPatchset(w)
    \/ GetDiffStats(w)
    \/ BuildPrompt(w)
    \/ ExecuteReview(w)
    \/ BackendExits(w)
    \/ ScannerError(w)
    \/ BackendDeadline(w)
    \/ BackendCancelled(w)
    \/ CleanupCheckout(w)
    \/ Cleanup(w)
    \/ ReviewReturns(w)

\* ---- the serve loop -----------------------------------------------------------
\* AfterPush that leaves the loop when the queue is full
AfterPushStopsOnFull(res) == IF res = "ErrQueueFull" THEN "returned" ELSE "loop"

\* where runServe goes after q.Push returned: `continue` after logging an error, the
\* end of the loop body after logging a success; both lead back to the select
AfterPush(res) == "loop"

\* case event := <-eventCh, for an event that passes the filter: q.Push(task) for the
\* task built from it
ServePush ==
    /\ spc = "loop"
    /\ \E task \in EventTasks(pushCount + 1) :
          /\ Push(task)
          /\ spc' = AfterPush(PushResult(task))

\* the signal handler's cancel()
Cancel ==
    /\ ~cancelled
    /\ cancelled' = TRUE
    /\ UNCHANGED <<tasks, inflight, latestByChange, lazyMode, mu, pushing, pushCount,
                   lastOp>>
    /\ UNCHANGED poolVars
    /\ UNCHANGED logVars
    /\ UNCHANGED serveVars
    /\ UNCHANGED listenerVars
    /\ UNCHANGED reviewVars
    /\ UNCHANGED streamVars
    /\ UNCHANGED configVars

\* case event, ok := <-eventCh with !ok: the channel is closed and holds no event;
\* runServe logs and returns nil, and its deferred cancel() closes ctx.Done()
ServeClosed ==
    /\ spc = "loop"
    /\ lpc = "closed"
    /\ eventCh = <<>>
    /\ spc' = "returned"
    /\ cancelled' = TRUE
    /\ UNCHANGED <<tasks, inflight, latestByChange, lazyMode, mu, pushing,
                   pushCount, lastOp, stopRes>>
    /\ UNCHANGED poolVars
    /\ UNCHANGED logVars
    /\ UNCHANGED listenerVars
    /\ UNCHANGED reviewVars
    /\ UNCHANGED streamVars
    /\ UNCHANGED configVars

\* case <-ctx.Done(): runServe makes shutdownCtx and calls pool.Stop(shutdownCtx)
ServeCancelled ==
    /\ spc = "loop"
    /\ cancelled
    /\ spc' = "stopping"
    /\ UNCHANGED <<tasks, inflight, latestByChange, lazyMode, mu, pushing, cancelled,
                   pushCount, lastOp, stopRes>>
    /\ UNCHANGED poolVars
    /\ UNCHANGED logVars
    /\ UNCHANGED listenerVars
    /\ UNCHANGED reviewVars
    /\ UNCHANGED streamVars
    /\ UNCHANGED configVars

\* ---- Pool.Stop ------------------------------------------------------------------
\* the counter of p.wg: Add(1) for every worker launched, Done() when a worker returns
WgCount == started - Cardinality({w \in WorkerIds : pc[w] = "stopped"})

\* the goroutine of Stop: p.wg.Wait() returns with the counter at zero, close(done).
\* Nothing keeps the counter at zero afterwards: Start runs in a goroutine of its own
\* and can launch a worker after Wait has returned.
StopWaitReturns ==
    /\ spc = "stopping"
    /\ WgCount = 0
    /\ spc' = "done"
    /\ UNCHANGED <<tasks, inflight, latestByChange, lazyMode, mu, pushing, cancelled,
                   pushCount, lastOp, stopRes>>
    /\ UNCHANGED poolVars
    /\ UNCHANGED logVars
    /\ UNCHANGED listenerVars
    /\ UNCHANGED reviewVars
    /\ UNCHANGED streamVars
    /\ UNCHANGED configVars

\* what Stop's select can return: nil ("ok") from <-done once the goroutine has closed
\* done; ctx.Err() ("timeout") from <-ctx.Done() when the timer of shutdownCtx has
\* fired
StopResults(at) == IF at = "done" THEN {"ok", "timeout"} ELSE {"timeout"}

\* Stop's select: pool.Stop(shutdownCtx) returns; runServe logs and returns nil
PoolStop ==
    /\ spc \in {"stopping", "done"}
    /\ \E r \in StopResults(spc) : stopRes' = r
    /\ spc' = "returned"
    /\ UNCHANGED <<tasks, inflight, latestByChange, lazyMode, mu, pushing, cancelled,
                   pushCount, lastOp>>
    /\ UNCHANGED poolVars
    /\ UNCHANGED logVars
    /\ UNCHANGED listenerVars
    /\ UNCHANGED reviewVars
    /\ UNCHANGED streamVars
    /\ UNCHANGED configVars

\* ---- Listener.StreamEvents -----------------------------------------------------
maxRetries == 100

\* getBackoff(retries), in seconds
getBackoff(r) == IF r < 5 THEN 5 ELSE 30

\* the condition of `for retries < maxRetries`
LoopContinues(r) == r < maxRetries

\* streamOnce returned an error: retries++; waitTime := l.getBackoff(retries); the
\* goroutine goes to the select on time.After(waitTime) and ctx.Done().  The history
\* failStreak counts the call as a failed connection attempt when it failed from the
\* head of the loop, before cmd.Start() succeeded; a call that had brought the stream
\* up (the goroutine reading a line or at the send of an event) is not counted.
StreamFailed ==
    /\ retries' = retries + 1
    /\ waitTime' = getBackoff(retries + 1)
    /\ failStreak' = IF lpc = "top" THEN failStreak + 1 ELSE failStreak
    /\ lpc' = "backoff"

\* the frame of every step of the listener's goroutine
ListenerFrame ==
    /\ UNCHANGED <<tasks, inflight, latestByChange, lazyMode, mu, pushing, cancelled,
                   pushCount, lastOp>>
    /\ UNCHANGED poolVars
    /\ UNCHANGED logVars
    /\ UNCHANGED serveVars
    /\ UNCHANGED reviewVars
    /\ UNCHANGED streamVars
    /\ UNCHANGED configVars

\* the loop condition fails: "Max retries reached", and the deferred close(eventCh)
ListenerGivesUp ==
    /\ lpc = "top"
    /\ ~LoopContinues(retries)
    /\ lpc' = "closed"
    /\ UNCHANGED <<retries, waitTime, failStreak>>
    /\ ListenerFrame

\* the check at the head of the loop body finds ctx done: return, close(eventCh)
ListenerCancelled ==
    /\ lpc = "top"
    /\ LoopContinues(retries)
    /\ cancelled
    /\ lpc' = "closed"
    /\ UNCHANGED <<retries, waitTime, failStreak>>
    /\ ListenerFrame

\* streamOnce fails before the stream is up: cmd.StdoutPipe() or cmd.Start() returns
\* an error
ConnectFails ==
    /\ lpc = "top"
    /\ LoopContinues(retries)
    /\ ~cancelled
    /\ StreamFailed
    /\ ListenerFrame

\* cmd.Start() succeeds: "Connected to Gerrit event stream", streamOnce reads frames
Connected ==
    /\ lpc = "top"
    /\ LoopContinues(retries)
    /\ ~cancelled
    /\ lpc' = "streaming"
    /\ failStreak' = 0
    /\ UNCHANGED <<retries, waitTime>>
    /\ ListenerFrame

\* the stream that was up is lost: scanner.Err(), a non-nil cmd.Wait(), or ctx done
\* while delivering (ctx.Err()); streamOnce returns the error
StreamLost ==
    /\ lpc = "streaming"
    /\ StreamFailed
    /\ ListenerFrame

\* the stream ends and cmd.Wait() returns nil: retries = 0, next iteration
StreamEnded ==
    /\ lpc = "streaming"
    /\ retries' = 0
    /\ failStreak' = 0
    /\ lpc' = "top"
    /\ UNCHANGED waitTime
    /\ ListenerFrame

\* case <-time.After(waitTime): back to the loop condition
BackoffDone ==
    /\ lpc = "backoff"
    /\ lpc' = "top"
    /\ UNCHANGED <<retries, waitTime, failStreak>>
    /\ ListenerFrame

\* case <-ctx.Done() during the wait: return, close(eventCh)
BackoffCancelled ==
    /\ lpc = "backoff"
    /\ cancelled
    /\ lpc' = "closed"
    /\ UNCHANGED <<retries, waitTime, failStreak>>
    /\ ListenerFrame

\* ---- streamOnce's frames and the events of runServe ---------------------------
\* the size of eventCh, make(chan Event, 100) in the code
EventChSize == 2

\* the number of lines the transport delivers
MaxFrames == 3

\* the failures of a stream in a row that are followed
MaxStreak == 1

\* a line json.Unmarshal rejects
Malformed ==
    [ok |-> FALSE, Type |-> "", Change |-> FALSE, PatchSet |-> FALSE, Project |-> "",
     ChangeNumber |-> 0, PatchsetNumber |-> 0]

\* the changes the transport reports
StreamChanges == {1}

\* the lines of the transport: malformed ones and patchset-created events
Frames ==
    {Malformed} \cup
    {[ok |-> TRUE, Type |-> "patchset-created", Change |-> TRUE, PatchSet |-> TRUE,
      Project |-> p, ChangeNumber |-> c, PatchsetNumber |-> n] :
        p \in Projects, c \in StreamChanges, n \in PatchsetNumbers}

\* the event json.Unmarshal makes of the n-th line
EventOf(frame, n) ==
    [n |-> n, Type |-> frame.Type, Change |-> frame.Change, PatchSet |-> frame.PatchSet,
     Project |-> frame.Project, ChangeNumber |-> frame.ChangeNumber,
     PatchsetNumber |-> frame.PatchsetNumber]

\* no event
NoEvent ==
    [n |-> 0, Type |-> "", Change |-> FALSE, PatchSet |-> FALSE, Project |-> "",
     ChangeNumber |-> 0, PatchsetNumber |-> 0]

\* queue.Task{...} built from the event, at time now
TaskOf(event, now) ==
    Task(TaskID(event.Project, event.ChangeNumber, event.PatchsetNumber), event.Project,
         event.ChangeNumber, event.PatchsetNumber, now)

\* SkipsMalformed for a scan that a malformed line ends with an error
SkipsMalformedNever(frame) == FALSE

\* `continue` after a failed json.Unmarshal: the line is skipped, the scan goes on
SkipsMalformed(frame) == ~frame.ok

\* ---- the event filter ------------------------------------------------------------
\* FilterConfig{Projects, Exclude} with both lists empty
NoFilter == [Projects |-> <<>>, Exclude |-> <<>>]

\* the projects the filtered events and the filter lists name
FilterProjects == {"p", "q"}

\* Event.Type of the events of the stream
EventTypes == {"patchset-created", "comment-added"}

\* the entries of serve.filter.projects and serve.filter.exclude, as written in the
\* configuration file: some carry white space around the name (spaces, a tab, a line
\* end, vertical tabs).  The entries are of characters up to U+007F: TLC does not keep
\* a character above that intact in the states it stores
FilterEntries == {"p", "q", " p ", "\tp", "q\r\n", "p"}

\* the lists of the configuration
FilterLists == {<<>>} \cup {<<a>> : a \in FilterEntries} \cup {<<"p", "q">>}

\* the filter configurations
FilterConfigs == [Projects : FilterLists, Exclude : FilterLists]

\* the characters unicode.IsSpace reports as white space, as far as a string of this
\* module can hold them: tab, line feed, vertical tab (U+000B), form feed, carriage
\* return, space, next line (U+0085), no-break space (U+00A0) and ogham space mark
\* (U+1680).  The white space from U+2000 on (U+2000 to U+200A, U+2028, U+2029, U+202F,
\* U+205F, U+3000) is white space to strings.TrimSpace too; no string of a module can
\* hold it, so no input has it.
WhiteSpace == {"\t", "\n", "", "\f", "\r", " ", "", " ", " "}

\* strings.TrimLeftFunc(s, unicode.IsSpace)
RECURSIVE TrimLeft(_)
TrimLeft(s) ==
    IF Len(s) > 0 /\ SubSeq(s, 1, 1) \in WhiteSpace
    THEN TrimLeft(SubSeq(s, 2, Len(s)))
    ELSE s

\* strings.TrimRightFunc(s, unicode.IsSpace)
RECURSIVE TrimRight(_)
TrimRight(s) ==
    IF Len(s) > 0 /\ SubSeq(s, Len(s), Len(s)) \in WhiteSpace
    THEN TrimRight(SubSeq(s, 1, Len(s) - 1))
    ELSE s

\* strings.TrimSpace(s): every white space character at both ends is removed
TrimSpace(s) == TrimRight(TrimLeft(s))

\* some entry of the list equals the project once its white space is trimmed
Lists(list, project) == \E i \in 1..Len(list) : TrimSpace(list[i]) = project

\* ShouldProcess with the allow list consulted before the exclude list
ShouldProcessAllowFirst(f, event) ==
    IF event.Type # "patchset-created" THEN FALSE
    ELSE IF ~event.Change THEN FALSE
    ELSE IF Len(f.Projects) > 0 /\ Lists(f.Projects, event.Project) THEN TRUE
    ELSE IF Lists(f.Exclude, event.Project) THEN FALSE
    ELSE Len(f.Projects) = 0

\* Filter.ShouldProcess(event): the kind, the presence of Change, the exclude list, the
\* empty allow list, the allow list, in that order; event.PatchSet is not looked at
ShouldProcess(f, event) ==
    IF event.Type # "patchset-created" THEN FALSE
    ELSE IF ~event.Change THEN FALSE
    ELSE IF Lists(f.Exclude, event.Project) THEN FALSE
    ELSE IF Len(f.Projects) = 0 THEN TRUE
    ELSE Lists(f.Projects, event.Project)

\* no call of a helper yet
NoCall ==
    [fn |-> "", event |-> NoEvent, project |-> "", changeNum |-> 0, patchsetNum |-> 0,
     accepted |-> FALSE, text |-> ""]

\* the last call of a helper, when none was made yet too
Call == IF DOMAIN call = {} THEN NoCall ELSE call

\* the record of filter.ShouldProcess(event)
FilterCall(f, event) ==
    [NoCall EXCEPT !.fn = "ShouldProcess", !.event = event,
                   !.accepted = ShouldProcess(f, event)]

\* runServe goes on to build a task: the filter accepts the event, and Change and
\* PatchSet are there
Processes(f, event) == ShouldProcess(f, event) /\ event.Change /\ event.PatchSet

\* ---- refs and paths ---------------------------------------------------------------
\* %02d with no padding: %d
Pad2None(n) == ToString(n)

\* %02d of a non-negative number: a zero in front of a number below ten
Pad2(n) == IF n < 10 THEN "0" \o ToString(n) ELSE ToString(n)

\* git.GetPatchsetRef(changeNum, patchsetNum)
GetPatchsetRef(changeNum, patchsetNum) ==
    LET lastTwoDigits == changeNum % 100 IN
    "refs/changes/" \o Pad2(lastTwoDigits) \o "/" \o ToString(changeNum) \o "/"
        \o ToString(patchsetNum)

\* the path without the slashes at its end
RECURSIVE StripSlashes(_)
StripSlashes(path) ==
    IF Len(path) > 0 /\ SubSeq(path, Len(path), Len(path)) = "/"
    THEN StripSlashes(SubSeq(path, 1, Len(path) - 1))
    ELSE path

\* the part of the path after its last slash
RECURSIVE LastElement(_)
LastElement(path) ==
    IF \E i \in 1..Len(path) : SubSeq(path, i, i) = "/"
    THEN LastElement(SubSeq(path, 2, Len(path)))
    ELSE path

\* filepath.Base(path): "." for the empty path, "/" for a path of slashes, else the
\* last element of the path without its trailing slashes
Base(path) ==
    IF path = "" THEN "."
    ELSE IF StripSlashes(path) = "" THEN "/"
    ELSE LastElement(StripSlashes(path))

\* the index of the first slash of the path, 0 when it has none
FirstSlash(path) ==
    LET at == {i \in 1..Len(path) : SubSeq(path, i, i) = "/"} IN
    IF at = {} THEN 0 ELSE CHOOSE i \in at : \A j \in at : i <= j

\* the elements of the path, the texts between its slashes, empty ones included
RECURSIVE Elements(_)
Elements(path) ==
    LET i == FirstSlash(path) IN
    IF i = 0 THEN <<path>>
    ELSE <<SubSeq(path, 1, i - 1)>> \o Elements(SubSeq(path, i + 1, Len(path)))

\* filepath.Clean's pass over the elements: empty elements and "." are dropped, ".."
\* removes the element before it, is dropped at the root and is kept at the start of
\* a path that is not rooted
RECURSIVE CleanElements(_, _, _)
CleanElements(elems, out, rooted) ==
    IF elems = <<>> THEN out
    ELSE LET e == Head(elems)
             rest == Tail(elems)
         IN IF e = "" \/ e = "." THEN CleanElements(rest, out, rooted)
            ELSE IF e = ".."
                 THEN IF Len(out) > 0 /\ out[Len(out)] # ".."
                      THEN CleanElements(rest, SubSeq(out, 1, Len(out) - 1), rooted)
                      ELSE IF rooted THEN CleanElements(rest, out, rooted)
                           ELSE CleanElements(rest, Append(out, ".."), rooted)
                 ELSE CleanElements(rest, Append(out, e), rooted)

\* the elements with a slash between them
RECURSIVE Slashed(_)
Slashed(elems) ==
    IF elems = <<>> THEN ""
    ELSE IF Len(elems) = 1 THEN elems[1]
    ELSE elems[1] \o "/" \o Slashed(Tail(elems))

\* filepath.Clean(path): "." for the empty path and for a path that cleans to nothing
Clean(path) ==
    IF path = "" THEN "."
    ELSE LET rooted == SubSeq(path, 1, 1) = "/"
             text == (IF rooted THEN "/" ELSE "")
                         \o Slashed(CleanElements(Elements(path), <<>>, rooted))
         IN IF text = "" THEN "." ELSE text

\* filepath.Join(dir, name): the elements that are not empty, joined by a slash and
\* cleaned; the empty string when both are empty
Join(dir, name) ==
    IF dir = "" /\ name = "" THEN ""
    ELSE IF dir = "" THEN Clean(name)
    ELSE IF name = "" THEN Clean(dir)
    ELSE Clean(dir \o "/" \o name)

\* Git.RepoBasePath of the configuration
RepoBasePath == "/tmp/repos"

\* Config.GetRepoPath(project)
GetRepoPath(project) ==
    LET safeName == Base(project) IN Join(RepoBasePath, safeName)

\* the record of git.GetPatchsetRef(changeNum, patchsetNum)
RefCall(changeNum, patchsetNum) ==
    [NoCall EXCEPT !.fn = "GetPatchsetRef", !.changeNum = changeNum,
                   !.patchsetNum = patchsetNum,
                   !.text = GetPatchsetRef(changeNum, patchsetNum)]

\* the record of cfg.GetRepoPath(project)
PathCall(project) ==
    [NoCall EXCEPT !.fn = "GetRepoPath", !.project = project, !.text = GetRepoPath(project)]

\* what a step inside streamOnce leaves alone
StreamFrame ==
    /\ UNCHANGED <<tasks, inflight, latestByChange, lazyMode, mu, pushing, cancelled,
                   pushCount, lastOp>>
    /\ UNCHANGED poolVars
    /\ UNCHANGED logVars
    /\ UNCHANGED serveVars
    /\ UNCHANGED reviewVars
    /\ UNCHANGED configVars
    /\ UNCHANGED <<pushed, inServe>>

\* scanner.Scan() delivers a line: a malformed one is logged and skipped, a well-formed
\* one is parsed and streamOnce goes to the select that sends it
ReadFrameFrom(lines) ==
    /\ lpc = "streaming"
    /\ Len(frames) < MaxFrames
    /\ \E frame \in lines :
          /\ frames' = Append(frames, frame)
          /\ IF frame.ok
             THEN /\ hand' = EventOf(frame, Len(frames) + 1)
                  /\ lpc' = "deliver"
                  /\ UNCHANGED <<retries, waitTime, failStreak>>
             ELSE IF SkipsMalformed(frame)
             THEN /\ UNCHANGED <<hand, lpc, retries, waitTime, failStreak>>
             ELSE /\ StreamFailed
                  /\ UNCHANGED hand
    /\ UNCHANGED <<eventCh, emitted>>
    /\ StreamFrame

\* a line of the stream of patchset-created events
ReadFrame == ReadFrameFrom(Frames)

\* case eventCh <- event
Deliver ==
    /\ lpc = "deliver"
    /\ Len(eventCh) < EventChSize
    /\ eventCh' = Append(eventCh, hand)
    /\ emitted' = Append(emitted, hand)
    /\ hand' = NoEvent
    /\ lpc' = "streaming"
    /\ UNCHANGED <<frames, retries, waitTime, failStreak>>
    /\ StreamFrame

\* SendSelectsDone for a send that waits for room only
SendSelectsDoneNever(done) == FALSE

\* the select around the send has a `case <-ctx.Done()`, ready when ctx is done
SendSelectsDone(done) == done

\* case <-ctx.Done() of the send: cmd.Process.Kill(); return ctx.Err()
DeliverCancelled ==
    /\ lpc = "deliver"
    /\ SendSelectsDone(cancelled)
    /\ hand' = NoEvent
    /\ StreamFailed
    /\ UNCHANGED <<frames, eventCh, emitted>>
    /\ StreamFrame

\* ctx is done while scanner.Scan() waits: exec.CommandContext kills ssh, the scan
\* ends and cmd.Wait() returns an error
StreamKilled ==
    /\ cancelled
    /\ StreamLost

\* a stream is lost while ctx is live, after fewer than MaxStreak errors of streamOnce
\* in a row
StreamBreaks ==
    /\ ~cancelled
    /\ retries < MaxStreak
    /\ StreamLost

\* what a receive from eventCh leaves alone
ReceiveFrame ==
    /\ UNCHANGED <<filter, twin>>
    /\ UNCHANGED <<frames, hand, emitted, pushed>>
    /\ UNCHANGED <<tasks, inflight, latestByChange, lazyMode, mu, pushing, cancelled,
                   pushCount, lastOp, stopRes>>
    /\ UNCHANGED poolVars
    /\ UNCHANGED logVars
    /\ UNCHANGED listenerVars
    /\ UNCHANGED reviewVars

\* case event := <-eventCh for an event the filter rejects ("Filtered out"), or one
\* without Change or PatchSet ("Event missing required fields"): continue
ServeFiltered ==
    /\ spc = "loop"
    /\ Len(eventCh) > 0
    /\ ~Processes(filter, Head(eventCh))
    /\ call' = FilterCall(filter, Head(eventCh))
    /\ eventCh' = Tail(eventCh)
    /\ UNCHANGED <<inServe, spc>>
    /\ ReceiveFrame

\* case event := <-eventCh for an event that passes the filter and has Change and
\* PatchSet: runServe holds it and goes on to build the task; the slot of eventCh is
\* free for the listener's send from here on
ServeReceive ==
    /\ spc = "loop"
    /\ Len(eventCh) > 0
    /\ Processes(filter, Head(eventCh))
    /\ call' = FilterCall(filter, Head(eventCh))
    /\ eventCh' = Tail(eventCh)
    /\ inServe' = Head(eventCh)
    /\ spc' = "push"
    /\ ReceiveFrame

\* the task is built from the received event and q.Push(task) is called, once q.mu
\* is free
ServeEvent ==
    /\ spc = "push"
    /\ LET task == TaskOf(inServe, pushCount + 1) IN
       /\ QueuePush(task)
       /\ spc' = AfterPush(PushResult(task))
    /\ pushed' = Append(pushed, inServe)
    /\ inServe' = NoEvent
    /\ UNCHANGED <<frames, hand, eventCh, emitted>>
    /\ UNCHANGED configVars

\* ---- callers of the queue other than the daemon ------------------------------
\* Push of a task with any id
CallPush ==
    /\ \E task \in OtherTasks(pushCount + 1) : Push(task)
    /\ UNCHANGED spc

\* MarkDone(taskID) for any id, admitted or not
CallMarkDone(taskID) ==
    /\ mu = "free"
    /\ inflight' = MarkDoneSet(inflight, taskID)
    /\ lastOp' = [op |-> "MarkDone", task |-> Task(taskID, "", 0, 0, 0), res |-> "ok"]
    /\ UNCHANGED <<tasks, latestByChange, lazyMode, mu, pushing, cancelled, pushCount>>
    /\ UNCHANGED poolVars
    /\ UNCHANGED logVars
    /\ UNCHANGED serveVars
    /\ UNCHANGED listenerVars
    /\ UNCHANGED reviewVars
    /\ UNCHANGED streamVars
    /\ UNCHANGED configVars

\* ---- the queue called by one goroutine --------------------------------------------
\* the number of Push calls made on the two queues
TwinPushes == 5

\* the tasks pushed on the two queues
TwinTasks ==
    {Task(TaskID("p", c, n), "p", c, n, 0) : c \in {1}, n \in {1, 2, 3}}
    \cup {Task(TaskID("p", c, n), "p", c, n, 0) : c \in {2}, n \in {1, 2}}

\* NewQueue in lazy mode: the channel, the in-flight set and latestByChange
NewQueue == [tasks |-> <<>>, inflight |-> {}, latest |-> [k \in {} |-> 0]]

\* PushOn that writes latestByChange only when the task was sent
PushOnRollback(q, task) ==
    IF task.ID \in q.inflight THEN [q |-> q, res |-> "ErrDuplicateTask"]
    ELSE IF /\ KeyOf(task) \in DOMAIN q.latest
            /\ task.PatchsetNumber <= q.latest[KeyOf(task)]
    THEN [q |-> q, res |-> "ErrObsoleteTask"]
    ELSE IF Len(q.tasks) < QueueSize
    THEN [q |-> [q EXCEPT !.latest = SetLatest(q.latest, KeyOf(task), task.PatchsetNumber),
                          !.tasks = ChanSend(q.tasks, task),
                          !.inflight = q.inflight \cup {task.ID}],
          res |-> "ok"]
    ELSE [q |-> q, res |-> "ErrQueueFull"]

\* q.Push(task) in lazy mode from Lock to Unlock: the queue it leaves and what it returns
PushOn(q, task) ==
    IF task.ID \in q.inflight THEN [q |-> q, res |-> "ErrDuplicateTask"]
    ELSE IF /\ KeyOf(task) \in DOMAIN q.latest
            /\ task.PatchsetNumber <= q.latest[KeyOf(task)]
    THEN [q |-> q, res |-> "ErrObsoleteTask"]
    ELSE LET bumped ==
                 [q EXCEPT !.latest = SetLatest(q.latest, KeyOf(task), task.PatchsetNumber)]
         IN IF Len(q.tasks) < QueueSize
            THEN [q |-> [bumped EXCEPT !.tasks = ChanSend(q.tasks, task),
                                       !.inflight = q.inflight \cup {task.ID}],
                  res |-> "ok"]
            ELSE [q |-> bumped, res |-> "ErrQueueFull"]

\* case task := <-q.tasks of q.Pop(ctx): the receive, made without q.mu
PopRecvOn(q) ==
    [q |-> [q EXCEPT !.tasks = ChanRecvRest(q.tasks)], task |-> ChanRecvTask(q.tasks)]

\* q.Pop(ctx) in lazy mode from Lock to Unlock for the task it received: a task behind
\* latestByChange has its id deleted and Pop goes back to the receive (NoTask); any
\* other task is returned
PopCheckOn(q, task) ==
    IF task.PatchsetNumber < LatestOf(q.latest, KeyOf(task))
    THEN [q |-> [q EXCEPT !.inflight = q.inflight \ {task.ID}], task |-> NoTask]
    ELSE [q |-> q, task |-> task]

\* q.MarkDone(taskID)
MarkDoneOn(q, taskID) == [q EXCEPT !.inflight = q.inflight \ {taskID}]

\* no call on the two queues yet
NoTwinCall == [op |-> "none", task |-> NoTask, resA |-> "none", resB |-> "none"]

\* two new queues: a is given every call, b every call but the first Push that
\* returned ErrQueueFull on a
NoTwin ==
    [a |-> NewQueue, b |-> NewQueue, heldA |-> NoTask, heldB |-> NoTask,
     gotA |-> NoTask, gotB |-> NoTask, skipped |-> FALSE, key |-> "", r |-> 0, pushes |-> 0, last |-> NoTwinCall]

\* the two queues, before their first call too
Twin == IF DOMAIN twin = {} THEN NoTwin ELSE twin

\* what a call on the two queues leaves alone
TwinFrame ==
    /\ UNCHANGED <<tasks, inflight, latestByChange, lazyMode, mu, pushing, cancelled,
                   pushCount, lastOp>>
    /\ UNCHANGED poolVars
    /\ UNCHANGED logVars
    /\ UNCHANGED serveVars
    /\ UNCHANGED listenerVars
    /\ UNCHANGED reviewVars
    /\ UNCHANGED streamVars
    /\ UNCHANGED <<filter, call>>

\* q.Push(task) on both queues; the first Push that a rejects as ErrQueueFull is not
\* made on b
TwinPush(task) ==
    /\ Twin.pushes < TwinPushes
    /\ LET pa == PushOn(Twin.a, task)
           skip == ~Twin.skipped /\ pa.res = "ErrQueueFull"
           pb == IF skip THEN [q |-> Twin.b, res |-> "none"] ELSE PushOn(Twin.b, task)
       IN twin' = [Twin EXCEPT !.a = pa.q, !.b = pb.q,
                               !.skipped = Twin.skipped \/ skip,
                               !.key = IF skip THEN KeyOf(task) ELSE Twin.key,
                               !.r = IF skip THEN task.PatchsetNumber ELSE Twin.r,
                               !.pushes = Twin.pushes + 1,
                               !.last = [op |-> "Push", task |-> task, resA |-> pa.res,
                                         resB |-> pb.res]]
    /\ TwinFrame

\* the worker is in q.Pop(ctx) at the receive, and the channel holds a task
AtRecv(q, heldTask, gotTask) == heldTask = NoTask /\ gotTask = NoTask /\ q.tasks # <<>>

\* the receive of q.Pop(ctx) on one queue, where its worker is at the receive
RecvStep(q, heldTask, gotTask) ==
    IF AtRecv(q, heldTask, gotTask) THEN PopRecvOn(q) ELSE [q |-> q, task |-> gotTask]

\* the worker's q.Pop(ctx) receives a task, on the queues whose worker waits for one;
\* q.mu is not held, a Push can run before the task is checked
TwinPopRecv ==
    /\ \/ AtRecv(Twin.a, Twin.heldA, Twin.gotA)
       \/ AtRecv(Twin.b, Twin.heldB, Twin.gotB)
    /\ twin' = [Twin EXCEPT !.a = RecvStep(Twin.a, Twin.heldA, Twin.gotA).q,
                            !.b = RecvStep(Twin.b, Twin.heldB, Twin.gotB).q,
                            !.gotA = RecvStep(Twin.a, Twin.heldA, Twin.gotA).task,
                            !.gotB = RecvStep(Twin.b, Twin.heldB, Twin.gotB).task,
                            !.last = [NoTwinCall EXCEPT !.op = "PopRecv"]]
    /\ TwinFrame

\* the check of q.Pop(ctx) on one queue, where its worker has received a task
CheckStep(q, heldTask, gotTask) ==
    IF gotTask = NoTask THEN [q |-> q, task |-> heldTask] ELSE PopCheckOn(q, gotTask)

\* the worker's q.Pop(ctx) checks the task it received against latestByChange, on the
\* queues whose worker has received one: the task is dropped or returned
TwinPopCheck ==
    /\ Twin.gotA # NoTask \/ Twin.gotB # NoTask
    /\ twin' = [Twin EXCEPT !.a = CheckStep(Twin.a, Twin.heldA, Twin.gotA).q,
                            !.b = CheckStep(Twin.b, Twin.heldB, Twin.gotB).q,
                            !.heldA = CheckStep(Twin.a, Twin.heldA, Twin.gotA).task,
                            !.heldB = CheckStep(Twin.b, Twin.heldB, Twin.gotB).task,
                            !.gotA = NoTask, !.gotB = NoTask,
                            !.last = [NoTwinCall EXCEPT !.op = "PopCheck"]]
    /\ TwinFrame

\* the worker's step on one queue while it holds a task: q.MarkDone(task.ID)
MarkDoneStep(q, heldTask) ==
    IF heldTask = NoTask THEN q ELSE MarkDoneOn(q, heldTask.ID)

\* the worker's q.MarkDone(task.ID) for the task its Pop returned, on the queues whose
\* worker holds one
TwinMarkDone ==
    /\ Twin.heldA # NoTask \/ Twin.heldB # NoTask
    /\ twin' = [Twin EXCEPT !.a = MarkDoneStep(Twin.a, Twin.heldA),
                            !.b = MarkDoneStep(Twin.b, Twin.heldB),
                            !.heldA = NoTask, !.heldB = NoTask,
                            !.last = [NoTwinCall EXCEPT !.op = "MarkDone"]]
    /\ TwinFrame

\* ---- calls of the helpers --------------------------------------------------------
\* the events given to the filter: each kind, with and without Change and PatchSet
FilterEvents ==
    {[n |-> 0, Type |-> t, Change |-> TRUE, PatchSet |-> ps, Project |-> p,
      ChangeNumber |-> 1, PatchsetNumber |-> IF ps THEN 1 ELSE 0] :
        t \in EventTypes, ps \in BOOLEAN, p \in FilterProjects}
    \cup
    {[n |-> 0, Type |-> t, Change |-> FALSE, PatchSet |-> ps, Project |-> "",
      ChangeNumber |-> 0, PatchsetNumber |-> IF ps THEN 1 ELSE 0] :
        t \in EventTypes, ps \in BOOLEAN}

\* the change numbers refs are built for
RefChangeNumbers == {0, 1, 5, 9, 10, 45, 99, 100, 101, 109, 110, 199, 1000, 12345}

\* the patchset numbers refs are built for
RefPatchsetNumbers == {0, 1, 2, 3, 10}

\* the project names paths are resolved for
RepoProjects ==
    {"app", "team-a/app", "team-b/app", "simple-project", "group/nested-project",
     "nested-project", "app/", "..", ""}

\* what a call of a helper leaves alone: everything but its record
HelperFrame ==
    /\ UNCHANGED <<tasks, inflight, latestByChange, lazyMode, mu, pushing, cancelled,
                   pushCount, lastOp>>
    /\ UNCHANGED poolVars
    /\ UNCHANGED logVars
    /\ UNCHANGED serveVars
    /\ UNCHANGED listenerVars
    /\ UNCHANGED reviewVars
    /\ UNCHANGED streamVars
    /\ UNCHANGED <<filter, twin>>

\* filter.ShouldProcess(event)
CallShouldProcess ==
    /\ \E event \in FilterEvents : call' = FilterCall(filter, event)
    /\ HelperFrame

\* git.GetPatchsetRef(changeNum, patchsetNum)
CallGetPatchsetRef ==
    /\ \E changeNum \in RefChangeNumbers, patchsetNum \in RefPatchsetNumbers :
          call' = RefCall(changeNum, patchsetNum)
    /\ HelperFrame

\* cfg.GetRepoPath(project)
CallGetRepoPath ==
    /\ \E project \in RepoProjects : call' = PathCall(project)
    /\ HelperFrame

\* ---- specifications -------------------------------------------------------------
\* NewQueue, NewPool: empty channel and maps; the mode and the pool size are configuration
InitWith(filterConfig) ==
    /\ tasks = <<>>
    /\ inflight = {}
    /\ latestByChange = [k \in {} |-> 0]
    /\ lazyMode \in BOOLEAN
    /\ mu = "free"
    /\ pushing = NoTask
    /\ workers \in 1..MaxWorkers
    /\ started = 0
    /\ pc = [w \in WorkerIds |-> "idle"]
    /\ held = [w \in WorkerIds |-> NoTask]
    /\ latestPatchset = [w \in WorkerIds |-> 0]
    /\ cancelled = FALSE
    /\ pushCount = 0
    /\ lastOp = [op |-> "none", task |-> NoTask, res |-> "ok"]
    /\ admitted = {}
    /\ lastRecvAt = 0
    /\ lastRetAt = 0
    /\ staleAtRecv = [w \in WorkerIds |-> FALSE]
    /\ spc = "loop"
    /\ stopRes = "none"
    /\ lpc = "top"
    /\ retries = 0
    /\ waitTime = 0
    /\ failStreak = 0
    /\ rv = [v \in {} |-> NoReview]
    /\ head = "main"
    /\ branches = {}
    /\ frames = <<>>
    /\ hand = NoEvent
    /\ eventCh = <<>>
    /\ emitted = <<>>
    /\ pushed = <<>>
    /\ inServe = NoEvent
    /\ filter = filterConfig
    /\ call = Nothing
    /\ twin = Nothing

\* the daemon with no filter lists configured
Init == InitWith(NoFilter)

Worker(w) ==
    \/ PopRecv(w)
    \/ PopCheck(w)
    \/ PopReturn(w)
    \/ PopCancelled(w)
    \/ MarkDone(w)

\* the daemon: the serve loop pushes, the pool's workers pop
Next ==
    \/ ServePush
    \/ PushInflight
    \/ Start
    \/ Cancel
    \/ \E w \in WorkerIds : Worker(w)

Spec == Init /\ [][Next]_vars

\* the queue under arbitrary callers: the daemon's calls, plus pushes of tasks
\* with other ids and MarkDone calls for any id at any time
NextApi ==
    \/ Next
    \/ CallPush
    \/ \E taskID \in CallIds : CallMarkDone(taskID)

\* one popping goroutine
InitApi == Init /\ workers = 1

SpecApi == InitApi /\ [][NextApi]_vars

\* runServe from its select to its return, with the pool: the loop pushes until ctx
\* is cancelled or eventCh is closed; of the listener only what a cancellation makes
\* it do at the head of its loop (SpecListener has its retry loop)
NextServe ==
    \/ Next
    \/ ListenerCancelled
    \/ ServeClosed
    \/ ServeCancelled
    \/ StopWaitReturns
    \/ PoolStop

\* the pool sizes of the serve runs
ServeWorkers == {1, 2}

InitServe == Init /\ workers \in ServeWorkers

SpecServe == InitServe /\ [][NextServe]_vars

\* runServe, pool.Stop and every Push make their steps and the timer of shutdownCtx
\* fires; nothing is asked of the workers.  Lazy mode, where Pop has all its steps.
InitServeFair == InitServe /\ lazyMode

SpecServeFair ==
    /\ InitServeFair
    /\ [][NextServe]_vars
    /\ WF_vars(ServePush \/ ServeClosed \/ ServeCancelled \/ StopWaitReturns \/ PoolStop)
    /\ WF_vars(PushInflight)

\* the pool with the outcome of each review told apart: the serve loop pushes, each
\* worker loops Pop, ReviewChange, MarkDone; ctx is not cancelled
PoolWorker(w) ==
    \/ PopRecv(w)
    \/ PopCheck(w)
    \/ PopReturn(w)
    \/ ReviewChange(w)
    \/ WorkerMarkDone(w)

NextPool ==
    \/ ServePush
    \/ PushInflight
    \/ Start
    \/ \E w \in WorkerIds : PoolWorker(w)

\* every review returns, every Push and every MarkDone gets through q.mu
SpecPool ==
    /\ InitServe
    /\ [][NextPool]_vars
    /\ WF_vars(PushInflight)
    /\ \A w \in WorkerIds : WF_vars(ReviewChange(w)) /\ WF_vars(WorkerMarkDone(w))

\* the pool whose goroutines run: while Start, a Push inside its critical section or a
\* worker can take a step, one of them does (the Go scheduler gives every runnable
\* goroutine its turn, which is more); nothing is asked of the serve loop's pushes
SpecPoolFair ==
    /\ InitServe
    /\ [][NextPool]_vars
    /\ WF_vars(PushInflight \/ Start \/ \E w \in WorkerIds : PoolWorker(w))

\* one worker whose ReviewChange is taken step by step: the serve loop pushes, the
\* worker loops Pop, the steps of ReviewChange, MarkDone; ctx can be cancelled
ReviewWorker(w) ==
    \/ PopRecv(w)
    \/ PopCheck(w)
    \/ PopReturn(w)
    \/ PopCancelled(w)
    \/ Review(w)
    \/ WorkerMarkDone(w)

NextReview ==
    \/ ServePush
    \/ PushInflight
    \/ Start
    \/ Cancel
    \/ \E w \in WorkerIds : ReviewWorker(w)

\* the workers Pool.Start launches when workers = 1
ReviewWorkers == {1}

\* a lazy-mode daemon with one worker
InitReview == Init /\ workers = 1 /\ lazyMode

SpecReview == InitReview /\ [][NextReview]_vars

\* every step of the worker that is not a wait for the backend is taken, and a
\* backend that runs while ctx is done is killed
SpecReviewFair ==
    /\ InitReview
    /\ [][NextReview]_vars
    /\ WF_vars(PushInflight)
    /\ \A w \in ReviewWorkers :
          /\ WF_vars(BackendCancelled(w))
          /\ WF_vars(CleanupCheckout(w))
          /\ WF_vars(Cleanup(w))
          /\ WF_vars(ReviewReturns(w))
          /\ WF_vars(WorkerMarkDone(w))

\* the goroutine of StreamEvents and the signal handler
Listener ==
    \/ ListenerGivesUp
    \/ ListenerCancelled
    \/ ConnectFails
    \/ Connected
    \/ StreamLost
    \/ StreamEnded
    \/ BackoffDone
    \/ BackoffCancelled

NextListener == Cancel \/ Listener

SpecListener == Init /\ [][NextListener]_vars

\* the helpers called with any arguments, under any filter configuration
NextCalls == CallShouldProcess \/ CallGetPatchsetRef \/ CallGetRepoPath

InitCalls == \E f \in FilterConfigs : InitWith(f) /\ workers = 1 /\ lazyMode

SpecCalls == InitCalls /\ [][NextCalls]_vars

\* a lazy-mode queue called by one goroutine at a time, beside its twin
NextTwin ==
    \/ \E task \in TwinTasks : TwinPush(task)
    \/ TwinPopRecv
    \/ TwinPopCheck
    \/ TwinMarkDone

InitTwin == Init /\ workers = 1 /\ lazyMode

SpecTwin == InitTwin /\ [][NextTwin]_vars

\* the filters of the daemon whose stream is followed: none, and p excluded
StreamFilters == {NoFilter, [Projects |-> <<>>, Exclude |-> <<"p">>]}

\* streamOnce reading lines and sending events
Stream ==
    \/ Connected
    \/ ReadFrame
    \/ Deliver
    \/ DeliverCancelled
    \/ StreamKilled
    \/ StreamBreaks
    \/ StreamEnded
    \/ BackoffDone
    \/ BackoffCancelled
    \/ ListenerCancelled

\* the listener's goroutine, runServe's loop over its events and the signal handler
NextStream ==
    \/ Cancel
    \/ Stream
    \/ ServeReceive
    \/ ServeEvent
    \/ ServeFiltered
    \/ PushInflight
    \/ ServeCancelled
    \/ ServeClosed

InitStream == \E f \in StreamFilters : InitWith(f) /\ workers = 1

SpecStream == InitStream /\ [][NextStream]_vars

\* once ctx is done the listener's goroutine takes the ctx.Done() cases that are
\* ready, and ssh is killed
SpecStreamFair ==
    /\ InitStream
    /\ [][NextStream]_vars
    /\ WF_vars(ListenerCancelled)
    /\ WF_vars(BackoffCancelled)
    /\ WF_vars(DeliverCancelled)
    /\ WF_vars(StreamKilled)

\* ---- properties ------------------------------------------------------------------
\* a step in which Push ran up to its select (or returned an error)
PushStep == pushCount' = pushCount + 1
\* the task of that Push, without its CreatedAt, and what Push returned
PushedTask == lastOp'.task
PushedRes == lastOp'.res
\* a step in which Pop returned a task to worker w
PopReturns(w) == pc[w] = "ret" /\ pc'[w] = "run"
\* ids of the tasks ever enqueued
AdmittedIds == {a.ID : a \in admitted}
\* number of copies of a task id in a channel
Copies(q, id) == Cardinality({i \in 1..Len(q) : q[i].ID = id})

\* C1: a Push of a task whose id is in the in-flight set returns ErrDuplicateTask and
\* leaves the channel, the in-flight set and latestByChange as they were; and a Push
\* that succeeded returns with its id in flight (so that pushing a task again before
\* its id is removed adds no second copy).
C1_Step ==
    /\ (PushStep /\ PushedTask.ID \in inflight)
            => (PushedRes = "ErrDuplicateTask" /\ UNCHANGED queueVars)
    /\ (mu = "push" /\ mu' = "free") => pushing.ID \in inflight'
C1_DuplicatePushRejected == [][C1_Step]_vars
\* a duplicate Push has been rejected while its first copy was still queued
C1_Witness ==
    /\ lastOp.op = "Push" /\ lastOp.res = "ErrDuplicateTask"
    /\ Copies(tasks, lastOp.task.ID) = 1
    /\ lastOp.task.ID \in inflight

\* C2: in lazy mode, once a task of a change was enqueued with patchset r, a Push for
\* that change with a patchset <= r, whose id is not in flight, returns
\* ErrObsoleteTask and enqueues nothing, whatever was popped or marked done meanwhile.
C2_Step ==
    (/\ lazyMode
     /\ PushStep
     /\ PushedTask.ID \notin inflight
     /\ \E a \in admitted :
            KeyOf(a) = KeyOf(PushedTask) /\ PushedTask.PatchsetNumber <= a.PatchsetNumber)
        => (PushedRes = "ErrObsoleteTask" /\ tasks' = tasks /\ admitted' = admitted)
C2_LazyRejectsOlderOrEqual == [][C2_Step]_vars
\* an equal patchset has been rejected after the admitted one was popped and marked done
C2_Witness ==
    /\ lazyMode
    /\ lastOp.op = "Push" /\ lastOp.res = "ErrObsoleteTask"
    /\ \E a \in admitted :
          /\ KeyOf(a) = KeyOf(lastOp.task)
          /\ a.PatchsetNumber = lastOp.task.PatchsetNumber
          /\ a.ID \notin inflight
          /\ Copies(tasks, a.ID) = 0
          /\ \A w \in WorkerIds : held[w].ID # a.ID

\* C3: every task Pop returns has its id in the in-flight set when Pop returns.
C3_PoppedIsInflight == [][\A w \in WorkerIds : PopReturns(w) => held[w].ID \in inflight']_vars

\* C4 as claimed: in lazy mode no task Pop returns is behind latestByChange of its
\* change at the moment Pop returns.
C4_NotBehindAtReturn ==
    [][\A w \in WorkerIds :
          (lazyMode /\ PopReturns(w))
              => held[w].PatchsetNumber >= LatestOf(latestByChange', KeyOf(held[w]))]_vars
\* C4 as amended: in lazy mode no task Pop returns is behind the latestByChange value
\* Pop read for its change under q.mu.
C4_NotBehindAtCheck ==
    lazyMode =>
        \A w \in WorkerIds :
            pc[w] \in {"ret", "run"} => held[w].PatchsetNumber >= latestPatchset[w]
\* a worker got a task that passed Pop's check and was superseded before Pop returned
C4_Witness ==
    /\ lazyMode
    /\ \E w \in WorkerIds :
          /\ pc[w] = "run"
          /\ latestPatchset[w] > 0
          /\ held[w].PatchsetNumber >= latestPatchset[w]
          /\ held[w].PatchsetNumber < LatestOf(latestByChange, KeyOf(held[w]))

\* C5: in lazy mode a task that is behind latestByChange when it is received from the
\* channel is not returned: Pop deletes its id from the in-flight set and goes back
\* to receiving.
C5_Step ==
    \A w \in WorkerIds :
        (lazyMode /\ pc[w] = "check" /\ staleAtRecv[w] /\ pc'[w] # "check")
            => (/\ pc'[w] = "pop"
                /\ held[w].ID \notin inflight'
                /\ held'[w] = NoTask)
C5_SupersededIsDiscarded == [][C5_Step]_vars
\* patchsets 1 and 2 of a change were both enqueued, Pop received patchset 1, dropped
\* it and is receiving again, with patchset 2 next in the channel
C5_Witness ==
    /\ lazyMode
    /\ pushCount = 2
    /\ Cardinality(admitted) = 2
    /\ \E w \in WorkerIds :
          /\ pc[w] = "pop" /\ staleAtRecv[w] /\ lastRecvAt = 1
          /\ Len(tasks) = 1
          /\ tasks[1].PatchsetNumber = 2
          /\ inflight = {tasks[1].ID}

\* the workers that have a task: received from the channel and not yet marked done
Busy == {w \in WorkerIds : held[w] # NoTask}

\* C6: the size of the in-flight set equals the number of tasks in the channel plus
\* the number of tasks the workers are processing.
C6_InflightCount == Cardinality(inflight) = Len(tasks) + Cardinality(Busy)

\* C7: latestByChange of a change never decreases (and an entry is never removed),
\* whatever Push returns.
C7_Step ==
    \A k \in DOMAIN latestByChange :
        k \in DOMAIN latestByChange' /\ latestByChange'[k] >= latestByChange[k]
C7_LatestNeverDecreases == [][C7_Step]_vars
\* Pushes have failed for a change whose latest patchset is 2, and it is still 2
C7_Witness ==
    /\ lazyMode
    /\ lastOp.op = "Push"
    /\ lastOp.res \in {"ErrDuplicateTask", "ErrObsoleteTask", "ErrQueueFull"}
    /\ lastOp.task.PatchsetNumber = 1
    /\ LatestOf(latestByChange, KeyOf(lastOp.task)) = 2

\* a Push that finds the channel holding QueueSize tasks
PushAtCapacity == PushStep /\ Len(tasks) = QueueSize

\* C8 as claimed: the channel never holds more than QueueSize tasks, and a Push made
\* when it holds QueueSize tasks returns ErrQueueFull, enqueues nothing and adds no id
\* to the in-flight set.
C8_FullPushReturnsQueueFull ==
    [][/\ Len(tasks') <= QueueSize
       /\ PushAtCapacity
            => (PushedRes = "ErrQueueFull" /\ tasks' = tasks /\ inflight' = inflight)]_vars
\* C8 as amended: the channel never holds more than QueueSize tasks, and a Push made
\* when it holds QueueSize tasks returns an error at once, enqueues nothing and adds
\* no id to the in-flight set; the error is ErrQueueFull unless the duplicate test
\* or, in lazy mode, the obsolete test rejects the task first.
C8_Step ==
    /\ Len(tasks') <= QueueSize
    /\ PushAtCapacity =>
         /\ PushedRes \in {"ErrDuplicateTask", "ErrObsoleteTask", "ErrQueueFull"}
         /\ (PushedRes = "ErrDuplicateTask") = (PushedTask.ID \in inflight)
         /\ (PushedRes = "ErrObsoleteTask") =
                (PushedTask.ID \notin inflight /\ lazyMode /\ IsObsolete(PushedTask))
         /\ tasks' = tasks
         /\ inflight' = inflight
         /\ mu' = "free"
C8_FullPushRejected == [][C8_Step]_vars
\* a Push has returned ErrQueueFull with the channel at capacity
C8_Witness ==
    /\ lastOp.op = "Push" /\ lastOp.res = "ErrQueueFull"
    /\ Len(tasks) = QueueSize
    /\ lastOp.task.ID \notin inflight
    /\ Copies(tasks, lastOp.task.ID) = 0

\* the tasks of a channel are in the order of their CreatedAt, all after `after`
InPushOrder(q, after) ==
    /\ \A i \in 1..Len(q) : q[i].CreatedAt > after
    /\ \A i, j \in 1..Len(q) : i < j => q[i].CreatedAt < q[j].CreatedAt

\* C9 as claimed: in non-lazy mode tasks are returned by Pop in the order in which
\* their Pushes completed, for any number of poppers.
C9_ReturnedInPushOrder ==
    [][\A w \in WorkerIds :
          (~lazyMode /\ PopReturns(w)) => held[w].CreatedAt > lastRetAt]_vars
\* C9 as amended: in non-lazy mode tasks are received from the channel in the order
\* in which their Pushes completed and none is skipped or discarded: every received
\* task is on its way to being returned, is being processed or was processed; with
\* one popper they are also returned in that order.
C9_ReceivedInPushOrder ==
    ~lazyMode =>
        /\ InPushOrder(tasks, lastRecvAt)
        /\ \A w \in WorkerIds :
              /\ pc[w] # "check"
              /\ pc[w] \in {"ret", "run"} =>
                    (held[w] # NoTask /\ held[w].CreatedAt <= lastRecvAt)
              /\ (workers = 1 /\ pc[w] = "ret") => held[w].CreatedAt > lastRetAt
        /\ lastRetAt <= lastRecvAt
\* two poppers in non-lazy mode have received and returned two tasks
C9_Witness ==
    /\ ~lazyMode
    /\ workers = 2
    /\ lastRecvAt = 2 /\ lastRetAt = 2
    /\ \A w \in WorkerIds : pc[w] = "run"

\* a step in which an outside caller's MarkDone ran
CallMarkDoneStep ==
    lastOp'.op = "MarkDone" /\ UNCHANGED <<pc, mu, pushCount, cancelled>>

\* C10: MarkDone(id) only deletes id from the in-flight set; a second MarkDone(id)
\* right after the first changes nothing, and MarkDone of an id that was never
\* enqueued changes nothing.
C10_Step ==
    CallMarkDoneStep =>
        /\ tasks' = tasks
        /\ latestByChange' = latestByChange
        /\ inflight' = inflight \ {lastOp'.task.ID}
        /\ lastOp = lastOp' => inflight' = inflight
        /\ lastOp'.task.ID \notin AdmittedIds => inflight' = inflight
C10_MarkDoneIdempotent == [][C10_Step]_vars
\* MarkDone has run for an id that was never enqueued, with other ids in flight
C10_Witness ==
    /\ lastOp.op = "MarkDone"
    /\ lastOp.task.ID \notin AdmittedIds
    /\ inflight # {}
    /\ Len(tasks) > 0

\* C11: a Pop that finds the channel empty does not return before a task was sent;
\* it leaves its select only by receiving the oldest task or, once ctx is done, by
\* returning ctx.Err(); the cancelled return takes nothing from the channel, and all
\* the Pop call removed before it are tasks that were behind latestByChange.
C11_Step ==
    \A w \in WorkerIds :
        /\ (pc[w] = "pop" /\ pc'[w] # "pop") =>
              \/ /\ Len(tasks) > 0
                 /\ held'[w] = tasks[1]
                 /\ pc'[w] \in {"check", "ret"}
              \/ /\ cancelled
                 /\ pc'[w] = "stopped"
                 /\ held[w] = NoTask /\ held'[w] = NoTask
                 /\ tasks' = tasks
                 /\ inflight' = inflight
        /\ (pc[w] = "check" /\ pc'[w] = "pop") =>
              /\ lazyMode
              /\ held[w].PatchsetNumber < LatestOf(latestByChange, KeyOf(held[w]))
        /\ (pc[w] = "idle" /\ pc'[w] # "idle") => (pc'[w] = "pop" /\ held'[w] = NoTask)
C11_PopBlocksUntilTaskOrCancel == [][C11_Step]_vars
\* a Pop dropped a superseded task, went back to receiving and returned ctx.Err()
\* while a task that is not superseded is still in the channel
C11_Witness ==
    /\ lazyMode
    /\ cancelled
    /\ \E w \in WorkerIds :
          /\ pc[w] = "stopped" /\ staleAtRecv[w]
          /\ Len(tasks) > 0
          /\ tasks[1].PatchsetNumber = LatestOf(latestByChange, KeyOf(tasks[1]))
          /\ tasks[1].ID \in inflight

\* C17: once ctx is cancelled, a Pop that leaves its select returns ctx.Err(), also
\* when the channel holds tasks: no worker gets a task after the cancellation.
C17_NoTaskAfterCancel ==
    [][\A w \in WorkerIds :
          (cancelled /\ pc[w] = "pop" /\ pc'[w] # "pop") => pc'[w] = "stopped"]_vars

\* the typed errors of Push
PushErrors == {"ErrDuplicateTask", "ErrObsoleteTask", "ErrQueueFull"}

\* C14: a Push of the serve loop that returns ErrDuplicateTask, ErrObsoleteTask or
\* ErrQueueFull leaves runServe in its loop and the queue as it was: the task is
\* dropped, nothing of it is kept for a retry; the loop is left only when ctx is done
\* or eventCh is closed, never in a step that pushes.
C14_Step ==
    /\ (PushStep /\ PushedRes \in PushErrors) =>
          /\ spc = "loop" /\ spc' = "loop"
          /\ stopRes' = stopRes
          /\ tasks' = tasks /\ inflight' = inflight
          /\ mu' = "free" /\ pushing' = NoTask
    /\ (spc = "loop" /\ spc' # "loop") => (~PushStep /\ (cancelled \/ lpc = "closed"))
C14_FailedPushKeepsLoop == [][C14_Step]_vars
\* no worker was started, a Push of the loop failed, and a later Push succeeded
C14_Witness ==
    /\ spc = "loop"
    /\ started = 0
    /\ pushCount > Len(tasks)
    /\ mu = "free"
    /\ lastOp.op = "Push" /\ lastOp.res = "ok"
    /\ tasks[Len(tasks)].ID = lastOp.task.ID

\* C15: when runServe has returned, pool.Stop has returned before: either with nil
\* after every worker of the pool has returned, or with the timeout of the 30 s
\* shutdownCtx.
C15_ReturnsAfterWaiting ==
    spc = "returned" =>
        \/ stopRes = "timeout"
        \/ stopRes = "ok" /\ \A w \in 1..workers : pc[w] = "stopped"

\* pool.Stop returns
StopReturns == spc \in {"stopping", "done"} /\ spc' = "returned"

C16_Step ==
    StopReturns =>
        /\ stopRes' \in {"ok", "timeout"}
        \* nil once all workers have exited
        /\ stopRes' = "ok" => \A w \in 1..workers : pc[w] = "stopped"
        \* the timeout error needs nothing of the workers
        /\ (\E w \in WorkerIds : pc[w] = "run") => stopRes' = "timeout"

\* C16: after ctx is cancelled runServe returns, also when a worker never leaves its
\* pipeline; pool.Stop returns nil only when all workers of the pool have returned, and
\* the timeout error when the 30 s of shutdownCtx are over with a worker in its
\* pipeline.
C16_ShutdownTerminates == [][C16_Step]_vars /\ (cancelled ~> spc = "returned")

\* a step in which a worker's MarkDone ran
WorkerMarkDoneStep == lastOp'.op = "worker.MarkDone" /\ lastOp' # lastOp

\* C12: when ReviewChange has returned, with or without an error, the worker's next
\* step is MarkDone of the task's id, which leaves the in-flight set; and, every
\* review returning, a worker that got a task from Pop gets to that MarkDone.
C12_Step ==
    \A w \in WorkerIds :
        /\ (pc[w] = "run" /\ pc'[w] # "run") => pc'[w] \in {"completed", "failed"}
        /\ (pc[w] \in {"completed", "failed"} /\ pc'[w] # pc[w]) =>
              /\ pc'[w] = "pop"
              /\ held[w].ID \notin inflight'
              /\ lastOp' = [op |-> "worker.MarkDone", task |-> Unstamped(held[w]),
                            res |-> pc[w]]
C12_PoppedIsMarkedDone ==
    /\ [][C12_Step]_vars
    /\ \A w \in WorkerIds : (pc[w] = "run") ~> (pc[w] = "pop")
\* a review failed and the id of its task has left the in-flight set
C12_Witness ==
    /\ lastOp.op = "worker.MarkDone"
    /\ lastOp.res = "failed"
    /\ lastOp.task.ID \in AdmittedIds
    /\ lastOp.task.ID \notin inflight

\* C13: an id leaves the in-flight set only in a worker's MarkDone for the task it
\* holds, after ReviewChange returned for it, or in Pop's lazy-mode drop of the task it
\* received and found superseded; when the id leaves, no task with that id is in the
\* channel and no worker holds one.
C13_Step ==
    \A id \in AllIds :
        (id \in inflight /\ id \notin inflight') =>
            /\ \E w \in WorkerIds :
                  /\ held[w].ID = id
                  /\ pc'[w] = "pop"
                  /\ \/ pc[w] \in {"completed", "failed"}
                     \/ /\ lazyMode /\ pc[w] = "check"
                        /\ held[w].PatchsetNumber < LatestOf(latestByChange, KeyOf(held[w]))
            /\ Copies(tasks', id) = 0
            /\ \A w \in WorkerIds : held'[w].ID # id
C13_RemovedOnlyWhenDone == [][C13_Step]_vars
\* a worker's MarkDone has removed an id while other tasks are queued and in flight
C13_Witness ==
    /\ lastOp.op = "worker.MarkDone"
    /\ lastOp.task.ID \notin inflight
    /\ Len(tasks) > 0
    /\ \E w \in WorkerIds : pc[w] = "run" /\ held[w].ID \in inflight

\* C18: while a stream that was brought up is being read, the retry counter is zero:
\* bringing the stream up has reset it.
C18_ConnectedResetsRetries == lpc = "streaming" => retries = 0

\* C19: the wait before the next attempt is 5 s after each of the first 5 consecutive
\* failed attempts and 30 s after the 6th and later ones.
C19_BackoffSchedule ==
    lpc = "backoff" => waitTime = (IF failStreak <= 5 THEN 5 ELSE 30)

\* C20: eventCh is closed only when ctx is cancelled or maxRetries connection attempts
\* in a row have failed; after the maxRetries-th failure in a row no connection is
\* attempted again, and the goroutine's step from the head of the loop closes the
\* channel; with fewer failures in a row and ctx live the channel stays open.
C20_Inv ==
    /\ failStreak <= maxRetries
    /\ lpc = "closed" => (cancelled \/ failStreak = maxRetries)
C20_Step ==
    /\ failStreak = maxRetries =>
          /\ failStreak' = failStreak
          /\ lpc' # "streaming"
          /\ (lpc = "top" /\ lpc' # "top") => lpc' = "closed"
    /\ lpc = "closed" => lpc' = "closed"
C20_ClosedOnlyOnCancelOrCap == []C20_Inv /\ [][C20_Step]_vars


\* ---- the review pipeline --------------------------------------------------------
\* the steps of ReviewChange between CheckoutPatchset's success and the deferred Cleanup
AfterCheckoutSteps == {"diff", "prompt", "execute", "backend", "cleanup"}

C23_Inv ==
    \A w \in WorkerIds :
       \* from the checkout to the cleanup the branch exists and is checked out
       /\ Rv(w).ppc \in AfterCheckoutSteps =>
             /\ Rv(w).branchName = BranchName(held[w].ChangeNumber, held[w].PatchsetNumber)
             /\ Rv(w).branchName \in branches
             /\ head = Rv(w).branchName
             /\ Rv(w).cleanup = "none"
       \* between Cleanup's two commands the branch exists still
       /\ Rv(w).ppc = "delete" =>
             /\ Rv(w).branchName = BranchName(held[w].ChangeNumber, held[w].PatchsetNumber)
             /\ Rv(w).branchName \in branches
             /\ head \in {Rv(w).branchName, "main"}
             /\ Rv(w).cleanup = "none"
       \* ReviewChange returns after a checkout only with the cleanup run
       /\ (Rv(w).ppc = "return" /\ Rv(w).branchName # "") =>
             /\ Rv(w).cleanup \in {"ok", "failed"}
             /\ Rv(w).cleanup = "ok" =>
                   (Rv(w).branchName \notin branches /\ head = "main")
             /\ Rv(w).cleanup = "failed" => Rv(w).branchName \in branches
       /\ (Rv(w).ppc = "return" /\ Rv(w).branchName = "") => Rv(w).cleanup = "none"

C23_Step ==
    \A w \in WorkerIds :
       \* whatever ReviewChange returns after the checkout, it goes through Cleanup
       /\ (Rv(w).ppc \in AfterCheckoutSteps /\ Rv(w)'.ppc # Rv(w).ppc) =>
             Rv(w)'.ppc \in AfterCheckoutSteps \cup {"delete"}
       /\ (Rv(w).ppc = "delete" /\ Rv(w)'.ppc # "delete") => Rv(w)'.ppc = "return"
       \* the cleanup commands fail, each of them, when ctx is cancelled: the workspace
       \* stays where it is and the branch stays
       /\ (cancelled /\ Rv(w).ppc = "cleanup" /\ Rv(w)'.ppc = "delete") => head' = head
       /\ (cancelled /\ Rv(w).ppc = "delete" /\ Rv(w)'.ppc = "return") =>
             /\ Rv(w)'.cleanup = "failed"
             /\ branches' = branches
       \* a cleanup whose commands succeeded has deleted the branch, whatever the error
       /\ (Rv(w).ppc = "delete" /\ Rv(w)'.cleanup = "ok") =>
             /\ head = "main"
             /\ branches' = branches \ {Rv(w).branchName}

\* C23: the review branch named after the change and patchset exists and is checked
\* out from the checkout until the cleanup; ReviewChange returns after a successful
\* checkout only with the cleanup run, on success, on the zero-change return and on
\* every error alike, and a cleanup whose commands succeeded leaves the branch deleted
\* and the default branch checked out.  After a cancellation of ctx the cleanup
\* commands, run under that ctx, fail: the branch stays, which is the case the claim
\* excepts.
C23_BranchLifetime == []C23_Inv /\ [][C23_Step]_vars

\* ReviewChange returns after a cancellation killed the backend: the cleanup has
\* failed and the branch is left checked out; the review before it had completed and
\* its branch is deleted
C23_Witness ==
    \E w \in WorkerIds :
       /\ cancelled
       /\ Rv(w).ppc = "return"
       /\ Rv(w).backend = "killed"
       /\ Rv(w).ctxErr = "canceled"
       /\ Rv(w).cleanup = "failed"
       /\ branches = {Rv(w).branchName}
       /\ head = Rv(w).branchName
       /\ lastOp.op = "worker.MarkDone"
       /\ lastOp.res = "completed"
       /\ BranchName(lastOp.task.ChangeNumber, lastOp.task.PatchsetNumber) \notin branches

\* the steps that have succeeded when ExecuteReview is called
BeforeBackend == <<"clone", "fetch", "checkout", "diff", "prompt">>

\* the errors of the steps before the backend
PreparationErrors == {"clone", "fetch", "checkout", "diff", "prompt"}

C24_Inv ==
    \A w \in WorkerIds :
       /\ (Rv(w).calls > 0 \/ Rv(w).ppc \in {"execute", "backend"}) =>
             /\ SubSeq(Rv(w).done, 1, 5) = BeforeBackend
             /\ Rv(w).changedFiles > 0
       /\ (Rv(w).ppc \in {"cleanup", "delete", "return"}
              /\ Rv(w).done = SubSeq(BeforeBackend, 1, 4) /\ Rv(w).changedFiles = 0) =>
             /\ Rv(w).err = "nil"
             /\ Rv(w).calls = 0
       /\ Rv(w).err \in PreparationErrors =>
             /\ Rv(w).calls = 0
             /\ Rv(w).ppc \in {"cleanup", "delete", "return"}

C24_Step ==
    \A w \in WorkerIds :
       \* a step that failed is the last one before the cleanup and the return
       /\ (Rv(w).err = "none" /\ Rv(w)'.err \in PreparationErrors) =>
             /\ Rv(w)'.done = Rv(w).done
             /\ Len(Rv(w).done) < 5
       \* and its failure is returned: the worker takes the task as failed
       /\ (Rv(w).err \in PreparationErrors /\ pc[w] = "run" /\ pc'[w] # "run") =>
             pc'[w] = "failed"
       \* the zero-change return is a success
       /\ (Rv(w).changedFiles = 0 /\ Rv(w).err = "nil" /\ pc[w] = "run" /\ pc'[w] # "run") =>
             pc'[w] = "completed"

\* C24: the backend is invoked only after clone/update, fetch, checkout and diff
\* statistics (and the prompt) all succeeded and the diff listed at least one changed
\* file; a step that fails ends the preparation, no backend is invoked and the worker
\* takes the task as failed; with no changed file ReviewChange returns nil having built
\* no prompt and invoked no backend.
C24_BackendOnlyAfterPreparation == []C24_Inv /\ [][C24_Step]_vars

\* the backend runs for a change with two changed files
C24_Witness ==
    \E w \in WorkerIds :
       /\ Rv(w).ppc = "backend"
       /\ Rv(w).calls = 1
       /\ Rv(w).changedFiles = 2
       /\ Rv(w).done = BeforeBackend

\* no ReviewChange call invokes the backend twice
C25_Inv == \A w \in WorkerIds : Rv(w).calls <= 1

C25_Step ==
    /\ \A w \in WorkerIds :
          \* once the backend was invoked, ReviewChange goes on to its return
          /\ Rv(w).calls = 1 =>
                (Rv(w)'.ppc # "execute" /\ (Rv(w)'.calls = 1 \/ Rv(w).ppc = "return"))
          \* ReviewChange returns without a push
          /\ (pc[w] = "run" /\ pc'[w] # "run") =>
                /\ Rv(w).ppc = "return"
                /\ pc'[w] = (IF Rv(w).err = "nil" THEN "completed" ELSE "failed")
                /\ UNCHANGED <<tasks, inflight, latestByChange, pushCount>>
          \* the worker of a failed task calls MarkDone and goes back to Pop
          /\ (pc[w] = "failed" /\ pc'[w] # "failed") =>
                /\ pc'[w] = "pop"
                /\ held'[w] = NoTask
                /\ held[w].ID \notin inflight'
                /\ UNCHANGED <<tasks, latestByChange, pushCount>>
    \* a task enters the channel only in a Push call of the serve loop, for an event
    /\ Len(tasks') > Len(tasks) =>
          /\ pushCount' = pushCount + 1
          /\ spc = "loop"
          /\ tasks' = Append(tasks, pushing')
          /\ \A w \in WorkerIds : held[w].ID # pushing'.ID

\* C25: a ReviewChange call invokes the backend at most once; a failed task is not
\* retried or enqueued again by ReviewChange, the worker or the queue: the worker
\* marks it done and pops the next task, and tasks enter the channel only by the
\* pushes of events.
C25_SingleUse == []C25_Inv /\ [][C25_Step]_vars

\* the backend was invoked once and failed, the worker holds the failed task, which is
\* in flight and not queued
C25_Witness ==
    \E w \in WorkerIds :
       /\ pc[w] = "failed"
       /\ held[w].ID \in inflight
       /\ \A i \in 1..Len(tasks) : tasks[i].ID # held[w].ID
       /\ Len(tasks) > 0

\* strings.Contains(s, sub)
Contains(s, sub) ==
    \E i \in 1..(Len(s) - Len(sub) + 1) : SubSeq(s, i, i + Len(sub) - 1) = sub

C26_Inv ==
    \A w \in WorkerIds :
       (Rv(w).err = "ratelimit" /\ Rv(w).ppc \in {"cleanup", "return"}) =>
          /\ Len(Rv(w).posts) = 1
          /\ Rv(w).posts[1].change = held[w].ChangeNumber
          /\ Rv(w).posts[1].revision = held[w].PatchsetNumber
          /\ Rv(w).posts[1].vote = 0
          /\ Rv(w).posts[1].backend \in ReviewCLIs

C26_Step ==
    \A w \in WorkerIds :
       \* the review that is posted carries the summary
       /\ Len(Rv(w)'.posts) > Len(Rv(w).posts) =>
             /\ Rv(w).err = "ratelimit"
             /\ Rv(w).posts = <<>>
             /\ Len(Rv(w)'.posts) = 1
             /\ LET post == Rv(w)'.posts[1] IN
                /\ Contains(post.summary, "Backend: " \o post.backend)
                /\ Contains(post.summary, truncateForReviewMessage(post.cause, 220))
                /\ Contains(post.summary, "Please retry this patchset later.")
       \* the error is returned and the task is failed
       /\ (Rv(w).err = "ratelimit" /\ pc[w] = "run" /\ pc'[w] # "run") => pc'[w] = "failed"

\* C26: when the backend fails with the rate-limit kind, ReviewChange posts exactly one
\* review for the change and revision, with vote 0 and a summary that names the
\* backend, holds the cause (cut to 220 characters) and the text "Please retry this
\* patchset later."; then it returns the error and the worker takes the task as failed.
C26_RateLimitNotice == []C26_Inv /\ [][C26_Step]_vars

\* C27: ReviewChange posts no review when the backend succeeded, when the change was
\* empty, or when it failed for any reason other than a rate-limit failure of the
\* backend.
C27_NoOtherPost ==
    \A w \in WorkerIds :
       Rv(w).posts # <<>> => (Rv(w).err = "ratelimit" /\ Len(Rv(w).posts) = 1)

\* ReviewChange returns nil, and ReviewChange returns a timeout, with no review posted
C27_Witness ==
    \E w \in WorkerIds :
       /\ Rv(w).ppc = "return"
       /\ Rv(w).err \in {"nil", "timeout"}
       /\ Rv(w).calls = 1
       /\ Rv(w).posts = <<>>

C28_Inv ==
    \A w \in WorkerIds :
       /\ Rv(w).calls = 1 =>
             /\ Rv(w).timeout > 0
             /\ Rv(w).claudeTimeout > 0 => Rv(w).timeout = Rv(w).claudeTimeout
             /\ Rv(w).claudeTimeout <= 0 => Rv(w).timeout = 600
       \* a timeout error is returned only with the deadline passed
       /\ Rv(w).err = "timeout" =>
             /\ Rv(w).ctxErr = "deadline"
             /\ Rv(w).backend \in {"killed", "exited"}
             /\ Rv(w).ppc \in {"cleanup", "delete", "return"}
       \* a process killed at the deadline gives the timeout error
       /\ (Rv(w).backend = "killed" /\ Rv(w).ctxErr = "deadline") => Rv(w).err = "timeout"

C28_Step ==
    \A w \in WorkerIds :
       \* the deadline passes with the process still running
       /\ (Rv(w).ppc = "backend" /\ Rv(w)'.ctxErr = "deadline"
              /\ Rv(w)'.backend # "exited") =>
             /\ Rv(w).backend = "running"
             /\ Rv(w)'.backend = "killed"
             /\ Rv(w)'.err = "timeout"
             /\ Rv(w)'.ppc = "cleanup"
       /\ (Rv(w).err = "timeout" /\ pc[w] = "run" /\ pc'[w] # "run") => pc'[w] = "failed"

       /\ Rv(w).timeout = 600
       /\ Rv(w).backend = "killed"

\* the ReviewChange call that runs the backend for the task with the given id
BackendRunsFor(id) ==
    \E w \in WorkerIds : Rv(w).ppc = "backend" /\ held[w].ID = id

C29_Step ==
    \A w \in WorkerIds :
       \* the backend that runs when ctx is cancelled is ended and ExecuteReview
       \* returns an error
       /\ (cancelled /\ Rv(w).ppc = "backend" /\ Rv(w)'.ppc # "backend") =>
             /\ Rv(w)'.backend \in {"killed", "exited"}
             /\ Rv(w)'.err \in {"backend", "ratelimit", "timeout"}
             /\ Rv(w)'.ppc = "cleanup"
       \* which ReviewChange returns
       /\ (Rv(w).backend = "killed" /\ pc[w] = "run" /\ pc'[w] # "run") => pc'[w] = "failed"
       \* and the worker calls MarkDone, cancelled or not
       /\ (pc[w] = "failed" /\ pc'[w] # "failed") =>
             /\ held[w].ID \notin inflight'
             /\ lastOp' = [op |-> "worker.MarkDone", task |-> Unstamped(held[w]),
                           res |-> "failed"]

\* the task whose backend runs when ctx is cancelled is marked done by its worker:
\* its id leaves the in-flight set
C29_MarkedDone ==
    \A id \in AllIds :
       (cancelled /\ BackendRunsFor(id))
          ~> (lastOp.op = "worker.MarkDone" /\ lastOp.task.ID = id /\ id \notin inflight)

\* C29: when ctx is cancelled while the backend runs, the backend process is killed,
\* ExecuteReview and ReviewChange return an error, and the worker still calls MarkDone
\* for the task: the id of the task leaves the in-flight set after the cancellation.
C29_CancelledReviewIsMarkedDone == [][C29_Step]_vars /\ C29_MarkedDone

\* the workers inside ReviewChange
Reviewing == {w \in WorkerIds : pc[w] = "run"}

\* C30: a pool made with workers = 1 launches one worker, so at most one ReviewChange
\* call is active at any moment and no two tasks use a project's workspace at the same
\* time.
C30_SingleWriter ==
    workers = 1 =>
       /\ started <= 1
       /\ Cardinality(Reviewing) <= 1
       /\ \A w \in WorkerIds : w > 1 => (pc[w] = "idle" /\ held[w] = NoTask)

\* the one worker is inside ReviewChange while two more tasks wait in the channel
C30_Witness ==
    /\ workers = 1
    /\ Reviewing = {1}
    /\ Len(tasks) = 2
    /\ tasks[1].Project = held[1].Project

\* ---- the event stream -----------------------------------------------------------
\* the events of the well-formed lines among fs, in the order of the lines
EventsOf(fs) ==
    LET idx == SelectSeq([i \in 1..Len(fs) |-> i], LAMBDA i : fs[i].ok)
    IN  [k \in 1..Len(idx) |-> EventOf(fs[idx[k]], idx[k])]

\* s is the start of t
IsPrefix(s, t) == Len(s) <= Len(t) /\ SubSeq(t, 1, Len(s)) = s

\* the event being sent, as a sequence
InHand == IF hand = NoEvent THEN <<>> ELSE <<hand>>

\* the event runServe has received and not pushed yet, as a sequence
InServe == IF inServe = NoEvent THEN <<>> ELSE <<inServe>>

\* the events runServe has received from eventCh
Received == SubSeq(emitted, 1, Len(emitted) - Len(eventCh))

C21_Step ==
    \* no attempt starts once ctx is done
    /\ (cancelled /\ lpc \in {"top", "backoff"}) => lpc' \in {"top", "backoff", "closed"}
    /\ (cancelled /\ lpc = "backoff") => lpc' # "backoff" \/ UNCHANGED listenerVars
    \* the closed channel stays closed and gets no event
    /\ lpc = "closed" => (lpc' = "closed" /\ emitted' = emitted /\ hand' = hand)

\* C21: once ctx is cancelled the listener's goroutine starts no connection any more
\* and in the end returns and closes eventCh, wherever the cancellation found it: in
\* scanner.Scan(), in the wait between attempts, or in the send of an event into the
\* full eventCh.
C21_CancelClosesStream ==
    /\ [][C21_Step]_vars
    /\ cancelled ~> (lpc = "closed")

\* the cancellation found streamOnce sending into the full eventCh: the event in hand
\* was given up and eventCh is closed
C21_Witness ==
    /\ cancelled
    /\ lpc = "closed"
    /\ Len(eventCh) = EventChSize
    /\ Len(EventsOf(frames)) = Len(emitted) + 1
    /\ retries = 1

C22_Inv ==
    \* every event is sent once, in the order of the lines
    /\ IsPrefix(emitted, EventsOf(frames))
    /\ IsPrefix(emitted \o InHand, EventsOf(frames))
    /\ ~cancelled => emitted \o InHand = EventsOf(frames)
    /\ Len(EventsOf(frames)) <= Len(emitted) + 1
    \* the channel holds the events not received yet, oldest first
    /\ Len(eventCh) <= Len(emitted)
    /\ eventCh = SubSeq(emitted, Len(emitted) - Len(eventCh) + 1, Len(emitted))
    \* the pushes are for received events, in the order they were sent
    /\ \A i \in 1..Len(pushed) : \E k \in 1..Len(Received) : Received[k] = pushed[i]
    /\ \A i, j \in 1..Len(pushed) : i < j => pushed[i].n < pushed[j].n
    \* every received event that passes the filter is pushed, or is the one runServe
    \* is about to push: none is left out and none is pushed twice
    /\ SelectSeq(Received, LAMBDA e : Processes(filter, e)) = pushed \o InServe

C22_Step ==
    \* a malformed line leaves the connection up and the retry counter alone
    /\ (Len(frames') > Len(frames) /\ ~frames'[Len(frames')].ok) =>
          /\ lpc' = "streaming"
          /\ UNCHANGED <<retries, waitTime, failStreak, hand, emitted>>
    \* runServe receives the oldest event in the channel
    /\ Len(Received') > Len(Received) =>
          /\ Received' = Append(Received, Head(eventCh))
          /\ eventCh' = Tail(eventCh)
          /\ inServe' \in {NoEvent, Head(eventCh)}
    \* a push is for the event received last
    /\ pushed' # pushed =>
          /\ pushed' = Append(pushed, inServe)
          /\ inServe = Received[Len(Received)]
          /\ inServe' = NoEvent
          /\ lastOp'.op = "Push"
          /\ lastOp'.task = Unstamped(TaskOf(inServe, 0))

\* C22: a line that fails to parse is skipped: the connection stays up and no failure
\* is counted; the well-formed lines before and after it are each sent on eventCh once,
\* in the order the transport delivered them, and runServe pushes them in that order.
C22_MalformedSkipped == []C22_Inv /\ [][C22_Step]_vars

\* a malformed line between two well-formed ones: both events were sent and pushed in
\* order with no failure counted
C22_Witness ==
    /\ Len(frames) = 3
    /\ frames[1].ok /\ ~frames[2].ok /\ frames[3].ok
    /\ Len(emitted) = 2
    /\ Len(pushed) = 2
    /\ pushed[1].n = 1 /\ pushed[2].n = 3
    /\ retries = 0
    /\ lpc = "streaming"

\* ---- the filter ------------------------------------------------------------------
\* the names in a list as written
Written(list) == {list[i] : i \in 1..Len(list)}

\* the names in a list with the white space around them removed
Trimmed(list) == {TrimSpace(list[i]) : i \in 1..Len(list)}

\* an event of the acted-on kind with Change and PatchSet was given to the filter
FilteredComplete ==
    /\ Call.fn = "ShouldProcess"
    /\ Call.event.Type = "patchset-created"
    /\ Call.event.Change
    /\ Call.event.PatchSet

\* C31 as stated: an event of the acted-on kind with change and revision information is
\* accepted exactly when its project is not an entry of the deny list and the allow list
\* is empty or has the project as an entry
C31_WrittenMembership ==
    FilteredComplete =>
        (Call.accepted <=>
            /\ Call.event.Project \notin Written(filter.Exclude)
            /\ (filter.Projects = <<>> \/ Call.event.Project \in Written(filter.Projects)))

\* deny lists whose one entry is the project p with white space around it
DenyP == {<<" p ">>, <<"\tp">>, <<"p">>}

\* C31: an event of the acted-on kind with change and revision information is accepted
\* exactly when its project is not a trimmed entry of the deny list and the allow list is
\* empty or has the project as a trimmed entry; a project in both lists is rejected
C31_TrimmedMembership ==
    FilteredComplete =>
        /\ Call.accepted <=>
                /\ Call.event.Project \notin Trimmed(filter.Exclude)
                /\ (filter.Projects = <<>> \/ Call.event.Project \in Trimmed(filter.Projects))
        /\ (/\ Call.event.Project \in Trimmed(filter.Exclude)
            /\ Call.event.Project \in Trimmed(filter.Projects)) => ~Call.accepted
        \* a tab or vertical tabs around the name and a line end after it are trimmed
        \* like spaces
        /\ (Call.event.Project = "p" /\ filter.Exclude \in DenyP) => ~Call.accepted
        /\ (Call.event.Project = "q" /\ filter.Exclude = <<>>
                                     /\ filter.Projects = <<"q\r\n">>) => Call.accepted

\* a project on both lists, the deny entry written with vertical tabs around the
\* name, was rejected
C31_Witness ==
    /\ FilteredComplete
    /\ Call.event.Project = "p"
    /\ filter.Exclude = <<"p">>
    /\ filter.Projects = <<"p", "q">>
    /\ ~Call.accepted

\* C32: the filter rejects every event that is not of the acted-on kind and every event
\* without change information or without revision information, whatever the lists are
C32_FilterRejectsIncomplete ==
    (/\ Call.fn = "ShouldProcess"
     /\ \/ Call.event.Type # "patchset-created"
        \/ ~Call.event.Change
        \/ ~Call.event.PatchSet)
    => ~Call.accepted

\* ---- refs and paths ---------------------------------------------------------------
\* the decimal digit d as one character
Digit(d) == ToString(d)

\* the ref of change C, patchset P as the format describes it: the last two decimal
\* digits of C, both written, then C and P in decimal
RefOf(C, P) ==
    "refs/changes/" \o Digit((C % 100) \div 10) \o Digit(C % 10) \o "/" \o ToString(C)
        \o "/" \o ToString(P)

\* C33: for non-negative C and P the ref is refs/changes/<C mod 100, two digits>/<C>/<P>;
\* change 100 patchset 1 gives refs/changes/00/100/1, change 1 patchset 1 gives
\* refs/changes/01/1/1
C33_PatchsetRef ==
    Call.fn = "GetPatchsetRef" =>
        /\ Call.text = RefOf(Call.changeNum, Call.patchsetNum)
        /\ (Call.changeNum = 100 /\ Call.patchsetNum = 1)
              => Call.text = "refs/changes/00/100/1"
        /\ (Call.changeNum = 1 /\ Call.patchsetNum = 1)
              => Call.text = "refs/changes/01/1/1"
        /\ (Call.changeNum = 12345 /\ Call.patchsetNum = 3)
              => Call.text = "refs/changes/45/12345/3"

\* the ref of change 100, patchset 1 was built, with both zeros
C33_Witness ==
    /\ Call.fn = "GetPatchsetRef"
    /\ Call.changeNum = 100
    /\ Call.patchsetNum = 1
    /\ Call.text = "refs/changes/00/100/1"

\* C38: two different project names resolve to different repository paths
C38_DistinctWorkspaces ==
    [][(/\ Call.fn = "GetRepoPath"
        /\ Call'.fn = "GetRepoPath"
        /\ Call.project # Call'.project)
       => Call.text # Call'.text]_vars

\* ---- the order of Push's tests ----------------------------------------------------
\* the patchset of the task is not above the latest one recorded for its change
NotAboveLatest(task) ==
    /\ KeyOf(task) \in DOMAIN latestByChange
    /\ task.PatchsetNumber <= latestByChange[KeyOf(task)]

\* C34: a Push whose id is in flight returns ErrDuplicateTask, also when its patchset is
\* not above the latest one and the channel is full; in lazy mode a Push whose id is not
\* in flight and whose patchset is not above the latest one returns ErrObsoleteTask, also
\* when the channel is full; a Push returns ErrQueueFull only when it passed both tests
C34_Step ==
    PushStep =>
        /\ PushedTask.ID \in inflight => PushedRes = "ErrDuplicateTask"
        /\ (lazyMode /\ PushedTask.ID \notin inflight /\ NotAboveLatest(PushedTask))
              => PushedRes = "ErrObsoleteTask"
        /\ PushedRes = "ErrQueueFull" =>
              /\ PushedTask.ID \notin inflight
              /\ ~(lazyMode /\ NotAboveLatest(PushedTask))
              /\ Len(tasks) = QueueSize
C34_TestsInOrder == [][C34_Step]_vars

\* the three conditions at once: a lazy-mode Push of an id in flight, its patchset not
\* above the latest one, the channel full, has returned ErrDuplicateTask
C34_Witness ==
    /\ lazyMode
    /\ lastOp.op = "Push"
    /\ lastOp.res = "ErrDuplicateTask"
    /\ lastOp.task.ID \in inflight
    /\ NotAboveLatest(lastOp.task)
    /\ Len(tasks) = QueueSize

\* ---- a Push that fails with ErrQueueFull ------------------------------------------
\* a step in which a Push on queue a returned ErrQueueFull
FullPush == Twin'.last.op = "Push" /\ Twin'.last.resA = "ErrQueueFull"

\* the tasks the failed Push of Twin.last.task is said not to touch: a higher patchset of
\* its change, or another change
Untouched(task, failed) ==
    \/ KeyOf(task) # KeyOf(failed)
    \/ task.PatchsetNumber > failed.PatchsetNumber

\* a failed Push leaves the channel and the in-flight set as they were and latestByChange
\* of its change at its patchset
C35_NoRollback ==
    FullPush =>
        /\ Twin'.a.tasks = Twin.a.tasks
        /\ Twin'.a.inflight = Twin.a.inflight
        /\ Twin'.a.latest =
               SetLatest(Twin.a.latest, KeyOf(Twin'.last.task), Twin'.last.task.PatchsetNumber)

\* C35 as stated: a lazy-mode Push of patchset r that returns ErrQueueFull leaves the
\* channel and the in-flight set unchanged and latestByChange of its change at r, and
\* every later Push of a patchset above r of that change or of another change returns
\* what it returns on the queue on which the failed Push was never made
C35_AsIfNeverPushed ==
    [][/\ C35_NoRollback
       /\ (/\ Twin.skipped
           /\ Twin'.last.op = "Push"
           /\ \/ KeyOf(Twin'.last.task) # Twin.key
              \/ Twin'.last.task.PatchsetNumber > Twin.r)
          => Twin'.last.resA = Twin'.last.resB]_vars

\* C35 as amended: the failed Push leaves the channel and the in-flight set unchanged and
\* latestByChange of its change at r; right after it every Push of a patchset above r of
\* that change or of another change returns what it returned right before it, a Push of
\* a patchset up to r of that change fails, and the queued tasks of that change below r
\* are behind latestByChange, so that Pop drops them
C35_Step ==
    /\ C35_NoRollback
    /\ FullPush =>
         LET failed == Twin'.last.task IN
         /\ \A task \in TwinTasks :
               Untouched(task, failed) =>
                   PushOn(Twin'.a, task).res = PushOn(Twin.a, task).res
         /\ \A task \in TwinTasks :
               ~Untouched(task, failed) =>
                   PushOn(Twin'.a, task).res \in {"ErrDuplicateTask", "ErrObsoleteTask"}
         /\ \A i \in 1..Len(Twin'.a.tasks) :
               (/\ KeyOf(Twin'.a.tasks[i]) = KeyOf(failed)
                /\ Twin'.a.tasks[i].PatchsetNumber < failed.PatchsetNumber)
               => Twin'.a.tasks[i].PatchsetNumber
                      < LatestOf(Twin'.a.latest, KeyOf(Twin'.a.tasks[i]))
    /\ (Twin'.last.op = "PopCheck" /\ Twin.gotA # NoTask) =>
         \* Pop drops the task it received when it is behind, and returns it otherwise
         IF Twin.gotA.PatchsetNumber < LatestOf(Twin.a.latest, KeyOf(Twin.gotA))
         THEN /\ Twin'.heldA = NoTask
              /\ Twin.gotA.ID \notin Twin'.a.inflight
         ELSE /\ Twin'.heldA = Twin.gotA
              /\ Twin'.a.inflight = Twin.a.inflight
C35_FailedPushBumpsLatest == [][C35_Step]_vars

\* after a failed Push of patchset 2 of a change left its patchset 1 queued and behind,
\* Pop has dropped that task on queue a and returned it on queue b
C35_Witness ==
    /\ Twin.skipped
    /\ Twin.r = 2
    /\ Twin.last.op = "PopCheck"
    /\ Twin.heldB.PatchsetNumber = 1
    /\ KeyOf(Twin.heldB) = Twin.key
    /\ Twin.heldA = NoTask
    /\ Twin.heldB.ID \notin Twin.a.inflight

\* ---- a revision pushed again -------------------------------------------------------
\* a task of the same project, change and patchset was enqueued before
AdmittedRevision(task) ==
    \E a \in admitted :
        /\ a.Project = task.Project
        /\ a.ChangeNumber = task.ChangeNumber
        /\ a.PatchsetNumber = task.PatchsetNumber

\* C40: in lazy mode a Push of a project, change and patchset that was enqueued before is
\* never enqueued again: it returns ErrObsoleteTask, under the same id or another one,
\* unless that id is still in flight (ErrDuplicateTask); in non-lazy mode a Push of a task
\* enqueued before whose id is no longer in flight is enqueued again when there is room
C40_Step ==
    PushStep =>
        /\ (lazyMode /\ AdmittedRevision(PushedTask)) =>
              /\ PushedRes # "ok"
              /\ tasks' = tasks
              /\ PushedTask.ID \notin inflight => PushedRes = "ErrObsoleteTask"
        /\ (/\ ~lazyMode
            /\ AdmittedRevision(PushedTask)
            /\ PushedTask.ID \notin inflight
            /\ Len(tasks) < QueueSize)
           => PushedRes = "ok" /\ tasks' = Append(tasks, pushing')
C40_AdmittedOnceWhenLazy == [][C40_Step]_vars

\* in lazy mode a patchset that was enqueued, popped and marked done has been pushed
\* again under another id and rejected as obsolete
C40_Witness ==
    /\ lazyMode
    /\ lastOp.op = "Push"
    /\ lastOp.res = "ErrObsoleteTask"
    /\ lastOp.task.ID \notin AdmittedIds
    /\ AdmittedRevision(lastOp.task)
    /\ inflight = {}
    /\ tasks = <<>>
    /\ lastRetAt > 0

\* ---- the start of the pool ---------------------------------------------------------
\* C36: every worker is registered with the pool (p.wg.Add(1), go p.worker) before a task
\* is pushed and before pool.Stop starts to wait
C36_WorkersStartedFirst ==
    (pushCount > 0 \/ spc \in {"stopping", "done", "returned"}) => started = workers

\* ---- reconnecting -------------------------------------------------------------------
\* C37: the listener comes back to the head of its loop, where the next connection
\* attempt starts, only from the backoff wait, never straight from a connection that
\* ended, with an error or without
C37_BackoffBeforeReconnect ==
    [][(lpc' = "top" /\ lpc # "top") => lpc = "backoff"]_vars

\* ---- no task stays in flight --------------------------------------------------------
\* the ids of the tasks the serve loop pushes
EventIds == {t.ID : t \in EventTasks(0)}

\* a task is in the channel or an id is in the in-flight set
Pending == inflight # {} \/ tasks # <<>>

\* C39: with ctx live, the workers running and every review returning, a task that was
\* enqueued does not stay in the channel and its id does not stay in the in-flight set:
\* a task leaves the channel only when a Pop receives it, which returns it to a worker
\* or, in lazy mode, drops it as superseded, and whenever a task is queued or an id is
\* in flight, a state follows in which the channel and the in-flight set are empty
C39_Step ==
    \A id \in EventIds :
        (Copies(tasks, id) > Copies(tasks', id)) =>
            \E w \in WorkerIds :
                /\ pc[w] = "pop" /\ pc'[w] \in {"check", "ret"}
                /\ held'[w].ID = id
C39_NoTaskStaysInFlight ==
    /\ [][C39_Step]_vars
    /\ Pending ~> ~Pending

\* two patchsets of a change were enqueued in lazy mode, one worker's Pop dropped the
\* first as superseded, the other worker reviewed the second and marked it done, and
\* nothing is in the channel or in flight any more
C39_Witness ==
    /\ lazyMode
    /\ Cardinality(admitted) = 2
    /\ \A a \in admitted : a.ChangeNumber = 1
    /\ \E w \in WorkerIds : staleAtRecv[w] /\ pc[w] = "pop"
    /\ lastOp.op = "worker.MarkDone"
    /\ lastOp.task.PatchsetNumber = 2
    /\ tasks = <<>>
    /\ inflight = {}
    /\ \A w \in WorkerIds : held[w] = NoTask

====
